---------------------------- MODULE Spec2Model ----------------------------
(***************************************************************************)
(* Peripheral transports and the Ymodem transfer engine of scratch-vm.     *)
(*                                                                         *)
(*   Spec / FairSpec : util/ymodem.js transfer() over a util/serial.js     *)
(*                     Serial (one transfer, the remote's bytes arbitrary) *)
(*   SessionSpec     : the peripheral sessions io/web-serial.js (both      *)
(*                     revisions) and io/web-ble.js                        *)
(*   WriteSpec       : write() of the two serial sessions on a connected   *)
(*                     port, chunk by chunk                                *)
(*   HexSpec         : write(message, 'hex') for every short message       *)
(*   LongSpec        : transfer() of a file of more than 255 packets       *)
(*   SharedSpec      : two transfer() calls on one Serial                  *)
(*   CrcSpec         : crc16 of util/ymodem.js on short buffers            *)
(***************************************************************************)
EXTENDS Integers, Sequences, FiniteSets, TLC

VARIABLES
    ym,         \* transfer(): the closure's variables (ymodem.js 87-93)
    serial,     \* the Serial the transfer runs on: port open, 'data' listeners
    promise,    \* the values transfer()'s promise was resolved with, in order
    sent,       \* every buffer handed to sendBuffer, in order, with its cause
    writes,     \* every serial.write call, in order
    nakSeen,    \* per queue index: NAK bytes handled while it was current
    closedBy,   \* the byte whose handling resolved the promise, or None
    answered,   \* AckSpec: the frames the responding remote has answered
    sess,       \* the session object's fields
    plat,       \* the platform objects the session talks to
    out,        \* what the last step did outwards: runtime events, callbacks
    last,       \* the last call or platform event, and what it found
    io          \* WriteSpec: the write() calls and the chunks given to the port;
                \* SharedSpec: the second transfer; CrcSpec: the call of crc16

xferVars == <<ym, serial, promise, sent, writes, nakSeen, closedBy, answered>>
sessVars == <<sess, plat, out, last, io>>
vars == <<ym, serial, promise, sent, writes, nakSeen, closedBy, answered,
          sess, plat, out, last, io>>

Null == "null"
\* no handle, no byte: JavaScript's null where the values are numbers
None == 0

(***************************************************************************)
(* util/ymodem.js                                                          *)
(***************************************************************************)
PACKET_SIZE == 1024
STX == 2
EOT == 4
ACK == 6
NAK == 21
CA == 24
CRC16 == 67

\* sendBuffer's chunk size (ymodem.js 101)
WRITE_SIZE == 256
\* the fill byte of splitBuffer's chunks (ymodem.js 65, 73)
FILL == 255

\* ---- bounds of the model
\* files of up to this many full packets
MaxFilePackets == 2
\* NAK bytes the remote sends in one run
MaxNak == 2
\* bytes in one 'data' event
MaxChunk == 2

Min(a, b) == IF a < b THEN a ELSE b

\* the sizes of the files transferred: around every multiple of PACKET_SIZE
FileSizes ==
    { q * PACKET_SIZE + d : q \in 0..(MaxFilePackets - 1),
                            d \in {0, 1, PACKET_SIZE - 1, PACKET_SIZE} }

Filenames == {"", "main.py"}

\* the bytes the remote may send: the four control bytes and one other byte
RxBytes == {CRC16, ACK, NAK, CA, EOT}

\* one 'data' event's value: 1..MaxChunk bytes
RECURSIVE SeqsOfLen(_, _)
SeqsOfLen(S, n) ==
    IF n = 0 THEN {<<>>}
    ELSE { Append(s, x) : s \in SeqsOfLen(S, n - 1), x \in S }

Chunks == UNION { SeqsOfLen(RxBytes, n) : n \in 1..MaxChunk }

RECURSIVE Count(_, _)
Count(s, x) ==
    IF s = <<>> THEN 0
    ELSE (IF Head(s) = x THEN 1 ELSE 0) + Count(Tail(s), x)

\* JavaScript's ^ on two non-negative integers
RECURSIVE Xor(_, _)
Xor(a, b) ==
    IF a = 0 THEN b
    ELSE IF b = 0 THEN a
    ELSE ((a + b) % 2) + 2 * Xor(a \div 2, b \div 2)

\* a turn of crc16's loop with << 4 where the code has << 5
crc16StepShift4(crc, byte) ==
    LET c1 == Xor((crc \div 256) % 256, byte % 256)
        c2 == Xor(c1, c1 \div 16)
        r1 == Xor((crc * 256) % 65536, c2)
        c3 == (c2 * 16) % 65536
        r2 == Xor(r1, c3)
        c4 == (c3 * 128) % 65536
    IN Xor(r2, c4)

(* One turn of crc16's loop (ymodem.js 17-25): code and crc as the code    *)
(* assigns them, >>> as a division, << with & 0xffff as a product modulo   *)
(* 2^16; no value passes 2^32.                                             *)
crc16Step(crc, byte) ==
    LET c1 == Xor((crc \div 256) % 256, byte % 256)
        c2 == Xor(c1, c1 \div 16)
        r1 == Xor((crc * 256) % 65536, c2)
        c3 == (c2 * 32) % 65536
        r2 == Xor(r1, c3)
        c4 == (c3 * 128) % 65536
    IN Xor(r2, c4)

\* crc16 (ymodem.js 14-28): crc after the bytes current[1..n]
RECURSIVE crc16Loop(_, _)
crc16Loop(current, n) ==
    IF n = 0 THEN 0
    ELSE crc16Step(crc16Loop(current, n - 1), current[n])

crc16(current) == crc16Loop(current, Len(current))

(* makeFileHeader: the header payload, PACKET_SIZE zero bytes with the     *)
(* file name written at 0 and, when filesize is truthy, the decimal size   *)
(* and a space written at filename.length + 1.                             *)
makeFileHeader(filename, filesize) ==
    [ src    |-> "header",
      alloc  |-> PACKET_SIZE,
      fill   |-> 0,
      name   |-> filename,
      sizeAt |-> IF filename # "" THEN Len(filename) + 1 ELSE 0,
      size   |-> IF filesize # 0 THEN filesize ELSE None ]

(* splitBuffer(buffer, size, fixedSize) on a buffer of byteLength bytes.   *)
(* A chunk is described by what the code does to build it: alloc bytes of  *)
(* FILL, then buffer[from .. to-1] copied to its start.  fixedSize = 0     *)
(* stands for the argument left undefined.                                 *)
(* The chunk of turn n of the loop (ymodem.js 61-70): start has been       *)
(* raised by size n - 1 times, end is start + size - 1 cut to the last     *)
(* byte.                                                                   *)
splitTurn(byteLength, size, fixedSize, n) ==
    LET start == (n - 1) * size
        end0  == start + size - 1
        end   == IF end0 >= byteLength THEN byteLength - 1 ELSE end0
    IN [ src   |-> "data",
         alloc |-> IF fixedSize # 0 THEN fixedSize ELSE end - start + 1,
         fill  |-> FILL,
         from  |-> start,
         to    |-> end + 1 ]

\* the turns the loop takes: as long as start < byteLength
splitTurns(byteLength, size) == (byteLength + size - 1) \div size

splitBuffer(byteLength, size, fixedSize) ==
    IF byteLength > size
    THEN [n \in 1..splitTurns(byteLength, size) |->
             splitTurn(byteLength, size, fixedSize, n)]
    ELSE << [ src   |-> "data",
              alloc |-> IF fixedSize # 0 THEN fixedSize ELSE size,
              fill  |-> FILL,
              from  |-> 0,
              to    |-> byteLength ] >>

\* the length in bytes of a buffer handed to sendBuffer
BufLen(buf) ==
    CASE buf.kind = "packet" -> 3 + PACKET_SIZE + 2
      [] buf.kind = "endsession" -> PACKET_SIZE + 5
      [] buf.kind = "eot" -> 1

(* The state the handler works on, as one record: the closure (ym), the    *)
(* serial's listeners and written chunks, the promise, the logs.           *)
\* sendBuffer(buf): one serial.write per chunk of splitBuffer(buf, 256)
sendBuffer(s, buf, cause) ==
    LET n == Len(s.sent) + 1
        chunks == splitBuffer(BufLen(buf), WRITE_SIZE, 0)
    IN [s EXCEPT
          !.sent = Append(@, [buf |-> buf, cause |-> cause]),
          !.writes = @ \o [i \in 1..Len(chunks) |->
                             [frame |-> n, chunk |-> chunks[i]]]]

\* sendPacket with a window of two: the packet after the current one follows it
sendPacketAhead(s, cause) ==
    IF s.ym.seq < Len(s.ym.queue)
    THEN LET mk(n) == [ kind    |-> "packet",
                        b0      |-> STX,
                        b1      |-> n % 256,
                        b2      |-> 255 - (n % 256),
                        payload |-> s.ym.queue[n + 1],
                        crcOf   |-> s.ym.queue[n + 1] ]
             s1 == sendBuffer(s, mk(s.ym.seq), cause)
         IN IF s.ym.seq + 1 < Len(s.ym.queue)
            THEN sendBuffer(s1, mk(s.ym.seq + 1), cause)
            ELSE s1
    ELSE IF s.ym.sending
    THEN sendBuffer(s, [kind |-> "eot", bytes |-> <<EOT>>], cause)
    ELSE s

\* a sendPacket that writes seq itself into the sequence byte
sendPacketWide(s, cause) ==
    IF s.ym.seq < Len(s.ym.queue)
    THEN LET payload == s.ym.queue[s.ym.seq + 1]
         IN sendBuffer(s, [ kind    |-> "packet",
                            b0      |-> STX,
                            b1      |-> s.ym.seq,
                            b2      |-> 255 - s.ym.seq,
                            payload |-> payload,
                            crcOf   |-> payload ], cause)
    ELSE IF s.ym.sending
    THEN sendBuffer(s, [kind |-> "eot", bytes |-> <<EOT>>], cause)
    ELSE s

\* sendPacket (ymodem.js 112-132)
sendPacket(s, cause) ==
    IF s.ym.seq < Len(s.ym.queue)
    THEN LET payload == s.ym.queue[s.ym.seq + 1]
             b1 == s.ym.seq % 256
             packet == [ kind    |-> "packet",
                         b0      |-> STX,
                         b1      |-> b1,
                         b2      |-> 255 - b1,
                         payload |-> payload,
                         crcOf   |-> payload ]
         IN sendBuffer(s, packet, cause)
    ELSE IF s.ym.sending
    THEN sendBuffer(s, [kind |-> "eot", bytes |-> <<EOT>>], cause)
    ELSE s

\* close (ymodem.js 184-197)
close(s, cause) ==
    LET s1 == [s EXCEPT !.ym.session = FALSE,
                        !.ym.sending = FALSE,
                        !.listeners = @ \ {"handler"}]
        s2 == IF ~s1.ym.finished
              THEN [s1 EXCEPT !.promise = Append(@,
                        [ filePath     |-> s1.ym.filename,
                          totalBytes   |-> s1.ym.totalBytes,
                          writtenBytes |-> s1.ym.writtenBytes ]),
                              !.closedBy = cause]
              ELSE s1
    IN [s2 EXCEPT !.ym.finished = TRUE]

\* an ACK branch that leaves the EOT out: the ACK of the last data packet
\* is answered with the end-of-session header
onAckNoEot(s) ==
    LET s1 == IF ~s.ym.session THEN close(s, ACK) ELSE s
    IN IF s1.ym.sending
       THEN IF s1.ym.seq + 1 < Len(s1.ym.queue)
            THEN sendPacket([s1 EXCEPT !.ym.seq = @ + 1], ACK)
            ELSE sendBuffer([s1 EXCEPT !.ym.seq = Len(s1.ym.queue),
                                       !.ym.writtenBytes = s1.ym.totalBytes,
                                       !.ym.sending = FALSE,
                                       !.ym.session = FALSE],
                            [ kind |-> "endsession", b0 |-> STX, b1 |-> 0,
                              b2 |-> 255, fill |-> 0 ], ACK)
       ELSE s1

\* an ACK branch that counts a whole packet for every ACK
onAckUnclamped(s) ==
    LET s1 == IF ~s.ym.session THEN close(s, ACK) ELSE s
    IN IF s1.ym.sending
       THEN IF s1.ym.seq < Len(s1.ym.queue)
            THEN sendPacket([s1 EXCEPT
                               !.ym.writtenBytes = (s1.ym.seq + 1) * PACKET_SIZE,
                               !.ym.seq = @ + 1], ACK)
            ELSE sendBuffer([s1 EXCEPT !.ym.sending = FALSE,
                                       !.ym.session = FALSE],
                            [ kind |-> "endsession", b0 |-> STX, b1 |-> 0,
                              b2 |-> 255, fill |-> 0 ], ACK)
       ELSE s1

\* the ACK branch of handler (ymodem.js 145-173)
onAck(s) ==
    LET s1 == IF ~s.ym.session THEN close(s, ACK) ELSE s
    IN IF s1.ym.sending
       THEN IF s1.ym.seq < Len(s1.ym.queue)
            THEN LET w == IF s1.ym.writtenBytes < s1.ym.totalBytes
                          THEN Min((s1.ym.seq + 1) * PACKET_SIZE,
                                   s1.ym.totalBytes)
                          ELSE s1.ym.writtenBytes
                     s2 == [s1 EXCEPT !.ym.writtenBytes = w,
                                      !.ym.seq = @ + 1]
                 IN sendPacket(s2, ACK)
            ELSE LET s2 == [s1 EXCEPT !.ym.sending = FALSE,
                                      !.ym.session = FALSE]
                     endsession == [ kind |-> "endsession",
                                     b0   |-> STX,
                                     b1   |-> 0,
                                     b2   |-> 255,
                                     fill |-> 0 ]
                 IN sendBuffer(s2, endsession, ACK)
       ELSE s1

\* the CRC16 branch of handler (ymodem.js 140-144)
onCrc16(s) ==
    IF ~s.ym.sending
    THEN [sendPacket(s, CRC16) EXCEPT !.ym.sending = TRUE]
    ELSE s

\* a NAK branch that gives the packet up and goes on to the next one
onNakAdvance(s) ==
    LET s1 == IF s.ym.seq < Len(s.ym.queue)
              THEN [s EXCEPT !.nakSeen[s.ym.seq] = @ + 1,
                             !.ym.seq = @ + 1]
              ELSE s
    IN sendPacket(s1, NAK)

\* the NAK branch of handler (ymodem.js 174-175)
onNak(s) ==
    sendPacket([s EXCEPT !.nakSeen[s.ym.seq] = @ + 1], NAK)

\* the CA branch of handler (ymodem.js 176-178)
onCa(s) == close(s, CA)

\* a turn of handler's loop that does not look at finished
handleByteUnguarded(s, ch) ==
    CASE ch = CRC16 -> onCrc16(s)
      [] ch = ACK -> onAck(s)
      [] ch = NAK -> onNak(s)
      [] ch = CA -> onCa(s)
      [] OTHER -> s

\* one turn of handler's loop: the byte ch (ymodem.js 138-179)
handleByte(s, ch) ==
    IF s.ym.finished THEN s
    ELSE CASE ch = CRC16 -> onCrc16(s)
           [] ch = ACK -> onAck(s)
           [] ch = NAK -> onNak(s)
           [] ch = CA -> onCa(s)
           [] OTHER -> s

\* handler(data): the bytes of data in order (ymodem.js 136-181)
RECURSIVE handler(_, _)
handler(s, data) ==
    IF data = <<>> THEN s
    ELSE handler(handleByte(s, Head(data)), Tail(data))

\* the body of transfer() up to serial.on('data', handler) (ymodem.js 87-212)
transferStart(filename, byteLength) ==
    [ filename     |-> filename,
      queue        |-> <<makeFileHeader(filename, byteLength)>>
                           \o splitBuffer(byteLength, PACKET_SIZE, PACKET_SIZE),
      totalBytes   |-> byteLength,
      writtenBytes |-> 0,
      seq          |-> 0,
      session      |-> TRUE,
      sending      |-> FALSE,
      finished     |-> FALSE ]

NoSession == [kind |-> Null]

Init ==
    /\ \E f \in Filenames, k \in FileSizes :
          ym = transferStart(f, k)
    /\ serial = [open |-> TRUE, reading |-> TRUE, listeners |-> {"handler"}]
    /\ promise = <<>>
    /\ sent = <<>>
    /\ writes = <<>>
    /\ nakSeen = [n \in 0..(MaxFilePackets + 1) |-> 0]
    /\ closedBy = None
    /\ answered = 0
    /\ sess = NoSession
    /\ plat = NoSession
    /\ out = <<>>
    /\ last = NoSession
    /\ io = NoSession

\* the NAK bytes the handler has taken so far
RECURSIVE NakSum(_, _)
NakSum(f, n) == IF n < 0 THEN 0 ELSE f[n] + NakSum(f, n - 1)

NakTotal == NakSum(nakSeen, MaxFilePackets + 1)

(* The read loop of Serial.open got a value: emit('data', value)           *)
(* (unnamed/part_007 20-33); every listener runs to its end.               *)
DataEvent(data) ==
    /\ serial.open /\ serial.reading
    /\ NakTotal + Count(data, NAK) <= MaxNak
    /\ LET s0 == [ ym |-> ym, listeners |-> serial.listeners,
                   promise |-> promise, sent |-> sent, writes |-> writes,
                   nakSeen |-> nakSeen, closedBy |-> closedBy ]
           s1 == IF "handler" \in serial.listeners THEN handler(s0, data)
                 ELSE s0
       IN /\ ym' = s1.ym
          /\ serial' = [serial EXCEPT !.listeners = s1.listeners]
          /\ promise' = s1.promise
          /\ sent' = s1.sent
          /\ writes' = s1.writes
          /\ nakSeen' = s1.nakSeen
          /\ closedBy' = s1.closedBy
    /\ UNCHANGED answered
    /\ UNCHANGED sessVars

(* Serial.close(): the read in flight is cancelled and ends the loop with  *)
(* done, the port closes (unnamed/part_007 50-64, 28-31).                  *)
SerialClose ==
    /\ serial.open
    /\ serial' = [serial EXCEPT !.open = FALSE, !.reading = FALSE]
    /\ UNCHANGED <<ym, promise, sent, writes, nakSeen, closedBy, answered>>
    /\ UNCHANGED sessVars

(* reader.read() rejects (the device is gone): the loop ends and           *)
(* 'disconnect' is emitted (unnamed/part_007 35-38); transfer() listens    *)
(* to 'data' alone.                                                        *)
SerialReadError ==
    /\ serial.open /\ serial.reading
    /\ serial' = [serial EXCEPT !.reading = FALSE]
    /\ UNCHANGED <<ym, promise, sent, writes, nakSeen, closedBy, answered>>
    /\ UNCHANGED sessVars

Next ==
    \/ \E data \in Chunks : DataEvent(data)
    \/ SerialClose
    \/ SerialReadError

Spec == Init /\ [][Next]_vars

\* the read loop and the remote keep going while they can
FairSpec == Spec /\ WF_vars(Next)

(***************************************************************************)
(* AckSpec: the same transfer against the remote of the completion test:   *)
(* it sends CRC16 once, then one ACK for every buffer the engine sent.     *)
(***************************************************************************)
RemoteCrc16 ==
    /\ sent = <<>> /\ answered = 0 /\ ~ym.sending
    /\ DataEvent(<<CRC16>>)

RemoteAck ==
    /\ serial.open /\ serial.reading
    /\ answered < Len(sent)
    /\ LET s0 == [ ym |-> ym, listeners |-> serial.listeners,
                   promise |-> promise, sent |-> sent, writes |-> writes,
                   nakSeen |-> nakSeen, closedBy |-> closedBy ]
           s1 == IF "handler" \in serial.listeners THEN handler(s0, <<ACK>>)
                 ELSE s0
       IN /\ ym' = s1.ym
          /\ serial' = [serial EXCEPT !.listeners = s1.listeners]
          /\ promise' = s1.promise
          /\ sent' = s1.sent
          /\ writes' = s1.writes
          /\ nakSeen' = s1.nakSeen
          /\ closedBy' = s1.closedBy
    /\ answered' = answered + 1
    /\ UNCHANGED sessVars

AckNext ==
    \/ RemoteCrc16
    \/ RemoteAck
    \/ SerialClose

AckSpec == Init /\ [][AckNext]_vars

\* the remote answers as long as the port is open and a frame is unanswered
FairAckSpec == Init /\ [][RemoteCrc16 \/ RemoteAck]_vars
                    /\ WF_vars(RemoteCrc16 \/ RemoteAck)

(***************************************************************************)
(* LongSpec: the clean run of a file of MaxLongPackets data packets, so    *)
(* that seq passes 255.                                                    *)
(***************************************************************************)
\* ---- bounds of the model
MaxLongPackets == 257

LongFileSizes == {(MaxLongPackets - 1) * PACKET_SIZE + 1}

LongInit ==
    /\ \E f \in Filenames, k \in LongFileSizes :
          ym = transferStart(f, k)
    /\ serial = [open |-> TRUE, reading |-> TRUE, listeners |-> {"handler"}]
    /\ promise = <<>>
    /\ sent = <<>>
    /\ writes = <<>>
    /\ nakSeen = [n \in 0..(MaxLongPackets + 1) |-> 0]
    /\ closedBy = None
    /\ answered = 0
    /\ sess = NoSession
    /\ plat = NoSession
    /\ out = <<>>
    /\ last = NoSession
    /\ io = NoSession

LongNext ==
    \/ RemoteCrc16
    \/ RemoteAck

LongSpec == LongInit /\ [][LongNext]_vars

(***************************************************************************)
(* SharedSpec: transfer() is called a second time on the serial of a       *)
(* transfer.  The second closure (its queue, counters, flags, promise) is  *)
(* held in io; the two handlers listen to the same 'data' events and write *)
(* to the same port.                                                       *)
(***************************************************************************)
\* ---- bounds of the model
\* calls of transfer() on the one serial
MaxTransfers == 2
\* NAK bytes the remote sends in one run
MaxSharedNak == 1

\* the bytes of the 'data' events: one control byte in each
SharedBytes == {CRC16, ACK, NAK, CA}

\* the names of the two files
SharedNames == {"main.py"}

SharedInit ==
    /\ \E f \in SharedNames, k \in FileSizes :
          ym = transferStart(f, k)
    /\ serial = [open |-> TRUE, reading |-> TRUE, listeners |-> {"handler"}]
    /\ promise = <<>>
    /\ sent = <<>>
    /\ writes = <<>>
    /\ nakSeen = [n \in 0..(MaxFilePackets + 1) |-> 0]
    /\ closedBy = None
    /\ answered = 0
    /\ sess = NoSession
    /\ plat = NoSession
    /\ out = <<>>
    /\ last = NoSession
    /\ io = [ kind |-> "transfer", ym |-> NoSession, promise |-> <<>>,
              closedBy |-> None, naks |-> 0, reacted |-> {} ]

\* the calls of transfer() made so far
Transfers == IF io.ym = NoSession THEN 1 ELSE 2

(* WebSerial.transfer (unnamed/part_006 133-135) calls transfer() on its   *)
(* serial whatever went before: a new closure, and its handler is added to *)
(* the listeners of 'data' (ymodem.js 87-212).                             *)
TransferAgain(filename, byteLength) ==
    /\ Transfers < MaxTransfers
    /\ io' = [io EXCEPT !.ym = transferStart(filename, byteLength),
                        !.reacted = {}]
    /\ serial' = [serial EXCEPT !.listeners = @ \cup {"handler2"}]
    /\ UNCHANGED <<ym, promise, sent, writes, nakSeen, closedBy, answered>>
    /\ UNCHANGED <<sess, plat, out, last>>

\* the record the second closure's handler works on, the port as st has it
SecondClosure(st, listening) ==
    [ ym |-> io.ym, listeners |-> IF listening THEN {"handler"} ELSE {},
      promise |-> io.promise, sent |-> st.sent, writes |-> st.writes,
      nakSeen |-> st.nakSeen, closedBy |-> io.closedBy ]

\* the handler did something on the event: to its closure, its promise or
\* the port
Reacted(before, after) ==
    \/ after.ym # before.ym
    \/ after.promise # before.promise
    \/ after.sent # before.sent

(* emit('data', value) with the listeners of the serial (unnamed/part_007  *)
(* 20-33): the handlers listening when the event is emitted run one after  *)
(* the other, in the order they were added.                                *)
SharedData(ch) ==
    /\ serial.open /\ serial.reading
    /\ ch = NAK => io.naks < MaxSharedNak
    /\ LET first  == "handler" \in serial.listeners
           second == "handler2" \in serial.listeners
           s0 == [ ym |-> ym, listeners |-> serial.listeners,
                   promise |-> promise, sent |-> sent, writes |-> writes,
                   nakSeen |-> nakSeen, closedBy |-> closedBy ]
           s1 == IF first THEN handler(s0, <<ch>>) ELSE s0
           t0 == SecondClosure(s1, second)
           t1 == IF second THEN handler(t0, <<ch>>) ELSE t0
       IN /\ ym' = s1.ym
          /\ promise' = s1.promise
          /\ closedBy' = s1.closedBy
          /\ nakSeen' = s1.nakSeen
          /\ sent' = t1.sent
          /\ writes' = t1.writes
          /\ serial' = [serial EXCEPT !.listeners =
                           (s1.listeners \cap {"handler"}) \cup
                           (IF t1.listeners # {} THEN {"handler2"} ELSE {})]
          /\ io' = [io EXCEPT
                      !.ym = t1.ym,
                      !.promise = t1.promise,
                      !.closedBy = t1.closedBy,
                      !.naks = IF ch = NAK THEN @ + 1 ELSE @,
                      !.reacted =
                          (IF Reacted(s0, s1) THEN {"handler"} ELSE {}) \cup
                          (IF Reacted(t0, t1) THEN {"handler2"} ELSE {})]
    /\ UNCHANGED answered
    /\ UNCHANGED <<sess, plat, out, last>>

SharedNext ==
    \/ \E f \in SharedNames, k \in FileSizes : TransferAgain(f, k)
    \/ \E ch \in SharedBytes : SharedData(ch)

SharedSpec == SharedInit /\ [][SharedNext]_vars

(***************************************************************************)
(* CrcSpec: crc16 called on a buffer: every buffer of one byte, and the    *)
(* buffers of up to MaxCrcLen bytes of CrcBytes.                           *)
(***************************************************************************)
\* ---- bounds of the model
MaxCrcLen == 3

CrcBytes == {0, 1, 16, 128, 255}

CrcInputs ==
    UNION { SeqsOfLen(CrcBytes, n) : n \in 0..MaxCrcLen }
        \cup { <<v>> : v \in 0..255 }

CrcInit ==
    /\ \E b \in CrcInputs :
          io = [kind |-> "crc16", current |-> b, called |-> FALSE, crc |-> 0]
    /\ ym = NoSession
    /\ serial = NoSession
    /\ promise = <<>>
    /\ sent = <<>>
    /\ writes = <<>>
    /\ nakSeen = <<>>
    /\ closedBy = None
    /\ answered = 0
    /\ sess = NoSession
    /\ plat = NoSession
    /\ out = <<>>
    /\ last = NoSession

\* const crc = crc16(current)
Crc16Call ==
    /\ ~io.called
    /\ io' = [io EXCEPT !.called = TRUE, !.crc = crc16(io.current)]
    /\ UNCHANGED <<ym, serial, promise, sent, writes, nakSeen, closedBy,
                   answered, sess, plat, out, last>>

CrcNext == Crc16Call

CrcSpec == CrcInit /\ [][CrcNext]_vars

(***************************************************************************)
(* The peripheral sessions: io/web-serial.js on a raw port ("serial"),     *)
(* its revision on util/serial.js ("serialUtil", unnamed/part_006 and      *)
(* part_007) and io/web-ble.js ("ble", unnamed/part_005).                  *)
(*                                                                         *)
(* A step is one call from the extension or the runtime, or one event or   *)
(* promise settlement of the platform, with the listeners and reactions    *)
(* the code runs on it.                                                    *)
(***************************************************************************)
\* ---- bounds of the model
\* the ports or devices the chooser can hand out
MaxHandles == 1
\* chooser promises pending at a time, and open promises pending at a time
MaxPending == 1
\* gattserverdisconnected listeners the session has put on one device
MaxListeners == 2

Handles == 1..MaxHandles
Kinds == {"serial", "serialUtil", "ble"}
ExtensionIds == {"microbit", "esp32"}
\* the extensions that make a session: one gives a reset callback, the
\* other leaves the parameter at its default, null
Extensions ==
    { [extensionId |-> id, hasReset |-> (id = "microbit")] : id \in ExtensionIds }

\* what the runtime and the extension see, in order
Ev(name) == [ev |-> name, extensionId |-> Null]
\* an error event, its payload {message, extensionId}
ErrEv(name, extensionId) == [ev |-> name, extensionId |-> extensionId]

DISCONNECTED == Ev("PERIPHERAL_DISCONNECTED")
CONNECTED == Ev("PERIPHERAL_CONNECTED")
ResetCallback == Ev("resetCallback")
ConnectCallback == Ev("connectCallback")
RuntimeConnect == Ev("runtime.connectPeripheral")

emit(st, e) == [st EXCEPT !.out = Append(@, e)]

\* _handleRequestError (web-serial.js 232-239, part_006 165-172, part_005 207-214)
handleRequestError(st) ==
    emit(st, ErrEv("PERIPHERAL_REQUEST_ERROR", st.sess.extensionId))

(* The platform's part of reader.releaseLock() on port h: the lock goes,   *)
(* a read pending on the reader is rejected.                               *)
releaseReader(pl, h) ==
    [pl EXCEPT !.port[h].rlock = FALSE,
               !.chain = IF @ = "pending" THEN "rejected" ELSE @]

(* The platform's part of port.close() on port h: an open port whose       *)
(* streams are unlocked closes; otherwise the promise rejects.             *)
CanClose(pl, h) ==
    pl.port[h].state = "open" /\ ~pl.port[h].rlock /\ ~pl.port[h].wlock

portClose(pl, h) ==
    IF CanClose(pl, h) THEN [pl EXCEPT !.port[h].state = "closed"] ELSE pl

\* a disconnect() that emits only when the session was connected
disconnectSerialQuiet(st) ==
    LET s1 == [st EXCEPT !.sess.connected = FALSE]
        s2 == IF s1.sess.reader # None
              THEN [s1 EXCEPT !.plat = releaseReader(@, s1.sess.reader)]
              ELSE s1
        s3 == IF s2.sess.writer # None
              THEN [s2 EXCEPT !.plat.port[s2.sess.writer].wlock = FALSE]
              ELSE s2
        s4 == IF s3.sess.handle # None
              THEN [s3 EXCEPT !.plat = portClose(@, s3.sess.handle)]
              ELSE s3
        s5 == [s4 EXCEPT !.sess.handle = None]
    IN IF st.sess.connected THEN emit(s5, DISCONNECTED) ELSE s5

\* WebSerial.disconnect on a raw port (web-serial.js 95-115)
disconnectSerial(st) ==
    LET s1 == [st EXCEPT !.sess.connected = FALSE]
        s2 == IF s1.sess.reader # None
              THEN [s1 EXCEPT !.plat = releaseReader(@, s1.sess.reader)]
              ELSE s1
        s3 == IF s2.sess.writer # None
              THEN [s2 EXCEPT !.plat.port[s2.sess.writer].wlock = FALSE]
              ELSE s2
        s4 == IF s3.sess.handle # None
              THEN [s3 EXCEPT !.plat = portClose(@, s3.sess.handle)]
              ELSE s3
    IN emit([s4 EXCEPT !.sess.handle = None], DISCONNECTED)

\* the session lets go of its Serial: an open() it has pending is that of
\* an object the session no longer holds
dropSerial(st) ==
    [st EXCEPT !.sess.handle = None,
               !.sess.ser = "none",
               !.plat.opening = { [h |-> k.h, obj |-> "old"] : k \in @ }]

(* Serial.close() (part_007 50-64) on the session's Serial, port h.  With  *)
(* a reader whose read is pending, cancel() ends that read with done, the  *)
(* loop releases the lock and stops (part_007 23-31), and the port closes. *)
(* With a reader that is released or whose stream is errored, cancel()     *)
(* rejects; with no reader, port.close() of a port that is locked or not   *)
(* open rejects: the close promise rejects and the port stays as it is.    *)
serialClose(st, h) ==
    IF st.sess.ser = "reading"
    THEN [st EXCEPT !.sess.ser = "done",
                    !.plat.port[h].rlock = FALSE,
                    !.plat.port[h].state = "closed"]
    ELSE IF st.sess.ser = "none" /\ CanClose(st.plat, h)
    THEN [st EXCEPT !.plat.port[h].state = "closed"]
    ELSE [st EXCEPT !.plat.closeRejected = TRUE]

\* WebSerial.disconnect over util/serial (part_006 88-97)
disconnectSerialUtil(st) ==
    LET s1 == [st EXCEPT !.sess.connected = FALSE]
        s2 == IF s1.sess.handle # None
              THEN serialClose(s1, s1.sess.handle)
              ELSE s1
    IN emit(dropSerial(s2), DISCONNECTED)

\* the body of WebBLE.disconnect with the server not connected (part_005 73-87)
disconnectBleInner(st) ==
    emit([st EXCEPT !.sess.connected = FALSE,
                    !.sess.handle = None,
                    !.sess.server = None], DISCONNECTED)

\* k gattserverdisconnected listeners, each calling disconnect() with the
\* server already disconnected (part_005 61-63)
RECURSIVE gattListeners(_, _)
gattListeners(st, k) ==
    IF k = 0 THEN st ELSE gattListeners(disconnectBleInner(st), k - 1)

(* WebBLE.disconnect (part_005 73-87).  server.disconnect() on a connected *)
(* server marks it disconnected and fires gattserverdisconnected at the    *)
(* device before it returns, so the listeners of part_005 61-63 run        *)
(* inside this call.                                                       *)
disconnectBle(st) ==
    LET s1 == [st EXCEPT !.sess.connected = FALSE]
        srv == s1.sess.server
        s2 == IF srv # None /\ s1.plat.gatt[srv]
              THEN gattListeners([s1 EXCEPT !.plat.gatt[srv] = FALSE],
                                 s1.plat.listeners[srv])
              ELSE s1
    IN disconnectBleInner(s2)

disconnect(st) ==
    CASE st.sess.kind = "serial" -> disconnectSerial(st)
      [] st.sess.kind = "serialUtil" -> disconnectSerialUtil(st)
      [] st.sess.kind = "ble" -> disconnectBle(st)

\* a handleDisconnectError that reports the loss before it resets
handleDisconnectErrorEarly(st) ==
    IF ~st.sess.connected THEN st
    ELSE LET s1 == emit(st, ErrEv("PERIPHERAL_CONNECTION_LOST_ERROR",
                                  st.sess.extensionId))
             s2 == disconnect(s1)
         IN IF s2.sess.hasReset THEN emit(s2, ResetCallback) ELSE s2

\* handleDisconnectError (web-serial.js 215-230, part_006 148-163, part_005 190-205)
handleDisconnectError(st) ==
    IF ~st.sess.connected THEN st
    ELSE LET s1 == disconnect(st)
             s2 == IF s1.sess.hasReset THEN emit(s1, ResetCallback) ELSE s1
         IN emit(s2, ErrEv("PERIPHERAL_CONNECTION_LOST_ERROR",
                           s2.sess.extensionId))

\* ---- the steps
Cur == [sess |-> sess, plat |-> plat, out |-> <<>>]

\* a step named op that leaves the session and the platform as st; run
\* counts the disconnect() calls in a row from a connected session (up to 2),
\* seen holds what the signals of loss have emitted for this connection,
\* was tells whether disconnect() or handleDisconnectError() found the
\* session connected
\* the steps that are a signal of loss: a GATT error caught in read or write
\* (the handleDisconnectError call), the events of the transports, a
\* rejected close
LossOps ==
    { "handleDisconnectError", "serial.disconnect", "serial.readError",
      "serial.orphanReadError", "closeRejected", "gattserverdisconnected",
      "ble.read", "ble.write" }

\* what the extension and the runtime are told of a loss
LossEvents ==
    { "PERIPHERAL_DISCONNECTED", "resetCallback",
      "PERIPHERAL_CONNECTION_LOST_ERROR" }

\* the loss events that the signals of loss have emitted since the
\* connection was established
Seen == IF last.kind = Null THEN {} ELSE last.seen

StepIo(op, st, io2) ==
    LET was == op \in {"disconnect", "handleDisconnectError"} /\ sess.connected
    IN /\ sess' = st.sess
       /\ plat' = st.plat
       /\ out' = st.out
       /\ last' = [ kind |-> "step", op |-> op, was |-> was,
                    seen |-> IF op = "openResolve" THEN {}
                             ELSE IF op \in LossOps
                             THEN Seen \cup { e \in LossEvents :
                                     \E i \in DOMAIN st.out : st.out[i].ev = e }
                             ELSE Seen,
                    run |-> IF op # "disconnect" THEN 0
                            ELSE IF sess.connected THEN 1
                            ELSE IF last.kind # Null /\ last.run >= 1 THEN 2
                            ELSE 0 ]
       /\ io' = io2
       /\ UNCHANGED xferVars

\* a step of the session that is no part of a write()
Step(op, st) == StepIo(op, st, io)

\* the constructor (web-serial.js 22-51, part_006 20-45, part_005 15-28):
\* the fields, and requestPeripheral() called
SessionInit ==
    /\ \E k \in Kinds, x \in Extensions :
          sess = [ kind |-> k, extensionId |-> x.extensionId,
                   hasReset |-> x.hasReset,
                   connected |-> FALSE, handle |-> None, server |-> None,
                   reader |-> None, writer |-> None, ser |-> "none" ]
    /\ plat = [ chooser |-> 1,
                opening |-> {},
                port |-> [h \in Handles |->
                            [state |-> "closed", rlock |-> FALSE,
                             wlock |-> FALSE]],
                orphan |-> [h \in Handles |-> FALSE],
                gatt |-> [h \in Handles |-> FALSE],
                listeners |-> [h \in Handles |-> 0],
                chain |-> "none",
                wchain |-> "none",
                closeRejected |-> FALSE ]
    /\ out = <<>>
    /\ last = NoSession
    /\ io = NoSession
    /\ ym = NoSession
    /\ serial = NoSession
    /\ promise = <<>>
    /\ sent = <<>>
    /\ writes = <<>>
    /\ nakSeen = <<>>
    /\ closedBy = None
    /\ answered = 0

\* requestPeripheral() up to the chooser (web-serial.js 58, part_006 52, part_005 35)
RequestPeripheral ==
    /\ plat.chooser < MaxPending
    /\ Step("requestPeripheral", [Cur EXCEPT !.plat.chooser = @ + 1])

(* The chooser gave port or device h (web-serial.js 59-64, part_006 53-57, *)
(* part_005 36-39).  In part_006 the session makes a new Serial for the    *)
(* port and lets go of the one it had, which reads on if it was reading.   *)
ChooserResolve(h) ==
    /\ plat.chooser > 0
    /\ LET s1 == [Cur EXCEPT !.plat.chooser = @ - 1]
           s2 == CASE sess.kind = "serial" ->
                        [s1 EXCEPT !.sess.handle = h,
                                   !.sess.reader = None,
                                   !.sess.writer = None]
                   [] sess.kind = "serialUtil" ->
                        LET o == IF sess.handle # None /\ sess.ser = "reading"
                                 THEN [s1 EXCEPT !.plat.orphan[sess.handle] = TRUE]
                                 ELSE s1
                        IN [dropSerial(o) EXCEPT !.sess.handle = h]
                   [] sess.kind = "ble" -> [s1 EXCEPT !.sess.handle = h]
       IN Step("chooserResolve", emit(s2, RuntimeConnect))

\* a chooser failure that also lets go of the handle chosen earlier
ChooserRejectForgets ==
    /\ plat.chooser > 0
    /\ Step("chooserReject",
            handleRequestError([Cur EXCEPT !.plat.chooser = @ - 1,
                                           !.sess.handle = None]))

\* the chooser failed or was cancelled (web-serial.js 65-67, part_006 58-60, part_005 40-42)
ChooserReject ==
    /\ plat.chooser > 0
    /\ Step("chooserReject",
            handleRequestError([Cur EXCEPT !.plat.chooser = @ - 1]))

\* connectPeripheral() up to open() or gatt.connect()
\* (web-serial.js 75-80, part_006 68-73, part_005 50-55)
ConnectPeripheral ==
    /\ sess.handle # None =>
          /\ Cardinality(plat.opening) < MaxPending
          /\ [h |-> sess.handle, obj |-> "cur"] \notin plat.opening
    /\ Step("connectPeripheral",
            IF sess.handle = None THEN handleRequestError(Cur)
            ELSE [Cur EXCEPT !.plat.opening =
                                @ \cup {[h |-> sess.handle, obj |-> "cur"]}])

(* open() or gatt.connect() resolved (web-serial.js 81-85, part_006 74-78  *)
(* with part_007 19-43, part_005 56-64).  A port opens only when it is     *)
(* closed, with new streams.  In part_007 the Serial that called open()    *)
(* starts its read loop, be it still the session's or not.  In WebBLE the  *)
(* listener is put on this._device: when that is null by now the TypeError *)
(* lands in the catch (part_005 65-67).                                    *)
OpenResolve(k) ==
    /\ k \in plat.opening
    /\ sess.kind # "ble" => plat.port[k.h].state = "closed"
    /\ sess.kind = "ble" /\ sess.handle # None =>
          plat.listeners[sess.handle] < MaxListeners
    /\ LET s1 == [Cur EXCEPT !.plat.opening = @ \ {k}]
           opened == [s1 EXCEPT !.plat.port[k.h] =
                                   [state |-> "open", rlock |-> FALSE,
                                    wlock |-> FALSE]]
           s2 == CASE sess.kind = "serial" -> opened
                   [] sess.kind = "serialUtil" /\ k.obj = "cur" ->
                        [opened EXCEPT !.plat.port[k.h].rlock = TRUE,
                                       !.sess.ser = "reading"]
                   [] sess.kind = "serialUtil" /\ k.obj = "old" ->
                        [opened EXCEPT !.plat.port[k.h].rlock = TRUE,
                                       !.plat.orphan[k.h] = TRUE]
                   [] sess.kind = "ble" ->
                        [s1 EXCEPT !.plat.gatt[k.h] = TRUE,
                                   !.sess.server = k.h]
           s3 == emit(emit([s2 EXCEPT !.sess.connected = TRUE], CONNECTED),
                      ConnectCallback)
           s4 == IF sess.kind # "ble" THEN s3
                 ELSE IF s3.sess.handle = None THEN handleRequestError(s3)
                 ELSE [s3 EXCEPT !.plat.listeners[s3.sess.handle] = @ + 1]
       IN Step("openResolve", s4)

\* open() or gatt.connect() rejected (web-serial.js 86-88, part_006 79-81, part_005 65-67)
OpenReject(k) ==
    /\ k \in plat.opening
    /\ Step("openReject",
            handleRequestError([Cur EXCEPT !.plat.opening = @ \ {k}]))

\* disconnect() called by the extension, in any state
Disconnect ==
    /\ sess.kind \in Kinds
    /\ Step("disconnect", disconnect(Cur))

\* handleDisconnectError() called: a GATT error caught in read or write
\* (part_005 147-149, 174-176), or the transport's signal
HandleDisconnectError ==
    /\ sess.kind \in Kinds
    /\ Step("handleDisconnectError", handleDisconnectError(Cur))

(* navigator.serial fires 'disconnect' for port h, any port of the system: *)
(* the port is gone, a read pending on it is rejected, and the listener of *)
(* web-serial.js 50 runs.                                                  *)
SerialDisconnectEvent(h) ==
    /\ sess.kind = "serial"
    /\ LET pl == [plat EXCEPT !.port[h].state = "closed",
                              !.chain = IF sess.reader = h /\ @ = "pending"
                                        THEN "rejected" ELSE @]
       IN Step("serial.disconnect",
               handleDisconnectError([Cur EXCEPT !.plat = pl]))

(* The read of the session's Serial rejects: 'disconnect' is emitted and   *)
(* the reader keeps its lock (part_007 35-38); the listener of part_006 55 *)
(* runs.                                                                   *)
SerialReadErrorEvent ==
    /\ sess.kind = "serialUtil"
    /\ sess.ser = "reading"
    /\ Step("serial.readError",
            handleDisconnectError([Cur EXCEPT !.sess.ser = "errored"]))

\* the same on a Serial the session has let go of: its listener is still
\* the session's (part_006 55)
OrphanReadErrorEvent(h) ==
    /\ sess.kind = "serialUtil"
    /\ plat.orphan[h]
    /\ Step("serial.orphanReadError",
            handleDisconnectError([Cur EXCEPT !.plat.orphan[h] = FALSE]))

\* a rejection of Serial.close() reaches the catch of part_006 93; others
\* may be pending still
CloseRejected ==
    /\ sess.kind = "serialUtil"
    /\ plat.closeRejected
    /\ \E more \in BOOLEAN :
          Step("closeRejected",
               handleDisconnectError([Cur EXCEPT !.plat.closeRejected = more]))

(* The link to device h is lost: the server is marked disconnected and     *)
(* gattserverdisconnected is fired at the device (part_005 61-63).         *)
GattServerDisconnected(h) ==
    /\ sess.kind = "ble"
    /\ plat.gatt[h]
    /\ Step("gattserverdisconnected",
            gattListeners([Cur EXCEPT !.plat.gatt[h] = FALSE],
                          plat.listeners[h]))

\* the call threw a TypeError at its caller
Thrown == Ev("TypeError")
\* the promise the call returned was rejected
Rejected == Ev("rejected")

\* port.readable.getReader() / port.writable.getWriter() of this._port
\* return: there is a port, it is open, and the stream is not locked
CanGetReader(st) ==
    /\ st.sess.handle # None
    /\ st.plat.port[st.sess.handle].state = "open"
    /\ ~st.plat.port[st.sess.handle].rlock

CanGetWriter(st) ==
    /\ st.sess.handle # None
    /\ st.plat.port[st.sess.handle].state = "open"
    /\ ~st.plat.port[st.sess.handle].wlock

(* read() on the raw port (web-serial.js 129-133).  With no _reader it     *)
(* takes one: this._port.readable.getReader() throws when _port is null,   *)
(* when the port is not open (readable is null) and when the stream is     *)
(* locked.  Then a read is pending; on a released reader it is rejected.   *)
(* One chain at a time.                                                    *)
Read ==
    /\ sess.kind = "serial"
    /\ plat.chain = "none"
    /\ Step("read",
            IF sess.reader = None
            THEN IF CanGetReader(Cur)
                 THEN [Cur EXCEPT !.sess.reader = sess.handle,
                                  !.plat.port[sess.handle].rlock = TRUE,
                                  !.plat.chain = "pending"]
                 ELSE emit(Cur, Thrown)
            ELSE [Cur EXCEPT !.plat.chain =
                     IF plat.port[sess.reader].rlock THEN "pending"
                     ELSE "rejected"])

(* The read chain ends (web-serial.js 134-150): with done, or with an      *)
(* error, which goes to _handleRequestError.  finally: the lock is         *)
(* released, _reader nulled, and with a port still there read() is called  *)
(* again; a null _reader, or a port without a free readable, throws there  *)
(* and the promise read() returned is rejected.                            *)
ReadSettle(ok) ==
    /\ sess.kind = "serial"
    /\ plat.chain # "none"
    /\ ok => plat.chain = "pending"
    /\ LET s1 == IF ok THEN Cur ELSE handleRequestError(Cur)
           s2 == [s1 EXCEPT !.plat.chain = "none"]
           s3 == IF s2.sess.reader = None THEN emit(s2, Rejected)
                 ELSE LET r == s2.sess.reader
                          s4 == [s2 EXCEPT !.plat.port[r].rlock = FALSE,
                                           !.sess.reader = None]
                      IN IF s4.sess.handle = None THEN s4
                         ELSE IF CanGetReader(s4)
                         THEN [s4 EXCEPT !.sess.reader = s4.sess.handle,
                                         !.plat.port[s4.sess.handle].rlock = TRUE,
                                         !.plat.chain = "pending"]
                         ELSE emit(s4, Rejected)
       IN Step(IF ok THEN "readSettle" ELSE "readError", s3)

(* write() on the raw port up to its first chunk (web-serial.js 183-201):  *)
(* this._port.writable.getWriter() throws when _port is null, when the     *)
(* port is not open and when the stream is locked, as it is while another  *)
(* write() is in flight.                                                   *)
Write ==
    /\ sess.kind = "serial"
    /\ CanGetWriter(Cur) => plat.wchain = "none"
    /\ Step("write",
            IF CanGetWriter(Cur)
            THEN [Cur EXCEPT !.sess.writer = sess.handle,
                             !.plat.port[sess.handle].wlock = TRUE,
                             !.plat.wchain = "pending"]
            ELSE emit(Cur, Thrown))

(* The chunks are written: the writer is released and _writer nulled       *)
(* (web-serial.js 196-198); or a chunk's write rejects and the promise     *)
(* write() returned rejects with it.                                       *)
WriteSettle(ok) ==
    /\ sess.kind = "serial"
    /\ plat.wchain = "pending"
    /\ ok => sess.writer # None /\ plat.port[sess.writer].wlock
    /\ Step("writeSettle",
            IF ok
            THEN [Cur EXCEPT !.plat.wchain = "none",
                             !.plat.port[sess.writer].wlock = FALSE,
                             !.sess.writer = None]
            ELSE emit([Cur EXCEPT !.plat.wchain = "none"], Rejected))

(* WebBLE.read and WebBLE.write up to the GATT request (part_005 127-129,  *)
(* 161-164): this._server.getPrimaryService throws when _server is null;  *)
(* on a server that is not connected it rejects, and the catch calls       *)
(* handleDisconnectError.  A request that was sent and fails later is the  *)
(* HandleDisconnectError step.                                             *)
gattRequest(st) ==
    IF st.sess.server = None THEN emit(st, Thrown)
    ELSE IF ~st.plat.gatt[st.sess.server] THEN handleDisconnectError(st)
    ELSE st

\* WebBLE.read (part_005 127-150)
BleRead ==
    /\ sess.kind = "ble"
    /\ Step("ble.read", gattRequest(Cur))

\* WebBLE.write (part_005 161-177)
BleWrite ==
    /\ sess.kind = "ble"
    /\ Step("ble.write", gattRequest(Cur))

OpenKeys == [h : Handles, obj : {"cur", "old"}]

SessionNext ==
    \/ RequestPeripheral
    \/ \E h \in Handles : ChooserResolve(h)
    \/ ChooserReject
    \/ ConnectPeripheral
    \/ \E k \in OpenKeys : OpenResolve(k)
    \/ \E k \in OpenKeys : OpenReject(k)
    \/ Disconnect
    \/ HandleDisconnectError
    \/ \E h \in Handles : SerialDisconnectEvent(h)
    \/ SerialReadErrorEvent
    \/ \E h \in Handles : OrphanReadErrorEvent(h)
    \/ CloseRejected
    \/ \E h \in Handles : GattServerDisconnected(h)
    \/ Read
    \/ \E ok \in BOOLEAN : ReadSettle(ok)
    \/ Write
    \/ \E ok \in BOOLEAN : WriteSettle(ok)
    \/ BleRead
    \/ BleWrite

SessionSpec == SessionInit /\ [][SessionNext]_vars

(***************************************************************************)
(* PortSpec: the two serial sessions on a system with several serial       *)
(* ports, so that a session can be connected to one port while another     *)
(* port, or the port it chose before, is lost.  The steps are those of     *)
(* SessionSpec for the serial sessions.                                    *)
(***************************************************************************)
\* ---- bounds of the model
\* the serial ports of the system
MaxPorts == 2

Ports == 1..MaxPorts

PortInit ==
    /\ \E k \in {"serial", "serialUtil"}, x \in Extensions :
          sess = [ kind |-> k, extensionId |-> x.extensionId,
                   hasReset |-> x.hasReset,
                   connected |-> FALSE, handle |-> None, server |-> None,
                   reader |-> None, writer |-> None, ser |-> "none" ]
    /\ plat = [ chooser |-> 1,
                opening |-> {},
                port |-> [h \in Ports |->
                            [state |-> "closed", rlock |-> FALSE,
                             wlock |-> FALSE]],
                orphan |-> [h \in Ports |-> FALSE],
                gatt |-> [h \in Ports |-> FALSE],
                listeners |-> [h \in Ports |-> 0],
                chain |-> "none",
                wchain |-> "none",
                closeRejected |-> FALSE ]
    /\ out = <<>>
    /\ last = NoSession
    /\ io = NoSession
    /\ ym = NoSession
    /\ serial = NoSession
    /\ promise = <<>>
    /\ sent = <<>>
    /\ writes = <<>>
    /\ nakSeen = <<>>
    /\ closedBy = None
    /\ answered = 0

PortKeys == [h : Ports, obj : {"cur", "old"}]

PortNext ==
    \/ RequestPeripheral
    \/ \E h \in Ports : ChooserResolve(h)
    \/ ChooserReject
    \/ ConnectPeripheral
    \/ \E k \in PortKeys : OpenResolve(k)
    \/ \E k \in PortKeys : OpenReject(k)
    \/ Disconnect
    \/ \E h \in Ports : SerialDisconnectEvent(h)
    \/ SerialReadErrorEvent
    \/ \E h \in Ports : OrphanReadErrorEvent(h)
    \/ CloseRejected

PortSpec == PortInit /\ [][PortNext]_vars

(***************************************************************************)
(* write() of the serial sessions, chunk by chunk: WebSerial.write on the  *)
(* raw port (web-serial.js 159-202) and WebSerial.write over util/serial   *)
(* (part_006 119-125, part_007 66-81), on a connected session.             *)
(***************************************************************************)
CHUNK_SIZE == 255

\* ---- bounds of the model
\* the longest payload
MaxWriteLen == 600
\* write() calls in one behaviour
MaxCalls == 2
\* the longest message of HexSpec
MaxHexLen == 4

WriteLens == {0, 1, CHUNK_SIZE, CHUNK_SIZE + 1, MaxWriteLen}

\* parseInt(c, 16) of one hex digit
HexValue ==
    [ c \in { "0", "1", "2", "3", "4", "5", "6", "7", "8", "9",
              "a", "b", "c", "d", "e", "f", "A", "B", "C", "D", "E", "F" } |->
        CASE c = "0" -> 0 [] c = "1" -> 1 [] c = "2" -> 2 [] c = "3" -> 3
          [] c = "4" -> 4 [] c = "5" -> 5 [] c = "6" -> 6 [] c = "7" -> 7
          [] c = "8" -> 8 [] c = "9" -> 9
          [] c \in {"a", "A"} -> 10 [] c \in {"b", "B"} -> 11
          [] c \in {"c", "C"} -> 12 [] c \in {"d", "D"} -> 13
          [] c \in {"e", "E"} -> 14 [] c \in {"f", "F"} -> 15 ]

\* the characters of the messages: hex digits of both cases, a letter that
\* is none, white space
HexChars == {"a", "1", "B", "2", "g", " "}

HexMessages == UNION { [1..n -> HexChars] : n \in 0..MaxHexLen }

\* a hex decoding that keeps the white space in
hexDecodeStrict(message) ==
    IF /\ message # <<>>
       /\ \A i \in DOMAIN message : message[i] \in DOMAIN HexValue
       /\ Len(message) % 2 = 0
    THEN [ ok |-> TRUE,
           bytes |-> [i \in 1..(Len(message) \div 2) |->
                        16 * HexValue[message[2 * i - 1]]
                           + HexValue[message[2 * i]]] ]
    ELSE [ok |-> FALSE, bytes |-> <<>>]

(* case 'hex' of write (web-serial.js 165-177): white space is removed,    *)
(* the rest must match /^[0-9A-Fa-f]+$/ and have an even length; every two *)
(* characters give a byte by parseInt(val, 16).                            *)
hexDecode(message) ==
    LET data == SelectSeq(message, LAMBDA c : c # " ")
    IN IF /\ data # <<>>
          /\ \A i \in DOMAIN data : data[i] \in DOMAIN HexValue
          /\ Len(data) % 2 = 0
       THEN [ ok |-> TRUE,
              bytes |-> [i \in 1..(Len(data) \div 2) |->
                           16 * HexValue[data[2 * i - 1]]
                              + HexValue[data[2 * i]]] ]
       ELSE [ok |-> FALSE, bytes |-> <<>>]

\* a message of len bytes, in an encoding that leaves its length alone
Payload(encoding, len) == [encoding |-> encoding, len |-> len, text |-> <<>>]
\* a message for the 'hex' encoding
HexMessage(text) == [encoding |-> "hex", len |-> 0, text |-> text]

WriteMessages ==
    { Payload(e, n) : e \in {"none", "text", "binary"}, n \in WriteLens }
       \cup { HexMessage(s) : s \in { <<"a", "1", "B", "2">>, <<"a", "1", "B">>,
                                      <<"a", "1", " ", "B", "2">>,
                                      <<"g", "1">>, <<>> } }

\* the promise of write() rejected with Error('Wrong HEX data: ...')
WrongHex == Ev("Wrong HEX data")

\* the write() call number c, as the closure and its promise stand
Call(c) == io.calls[c]

\* a writeChunk that hands all the chunks to the writer at once
writeChunkBulk(st, c) ==
    LET call == st.io.calls[c]
        n == (call.len + CHUNK_SIZE - 1) \div CHUNK_SIZE
    IN IF n > 0
       THEN [st EXCEPT !.io.chunks = @ \o
               [k \in 1..n |->
                  [ call |-> c, from |-> (k - 1) * CHUNK_SIZE,
                    to |-> IF k * CHUNK_SIZE < call.len THEN k * CHUNK_SIZE
                           ELSE call.len,
                    state |-> "queued" ]],
                       !.io.calls[c].counter = n - 1]
       ELSE [st EXCEPT !.plat.port[call.port].wlock = FALSE,
                       !.sess.writer = None,
                       !.io.calls[c].state = "done"]

(* writeChunk of write (web-serial.js 185-199): the next chunk of at most  *)
(* CHUNK_SIZE bytes goes to the writer, or, past the end, the writer is    *)
(* released, _writer is nulled and the promise resolves.                   *)
writeChunk(st, c) ==
    LET call == st.io.calls[c]
        start == call.counter * CHUNK_SIZE
        end0 == IF (call.counter + 1) * CHUNK_SIZE < call.len
                THEN (call.counter + 1) * CHUNK_SIZE ELSE call.len
    IN IF start < call.len
       THEN [st EXCEPT !.io.chunks = Append(@,
               [call |-> c, from |-> start, to |-> end0, state |-> "queued"])]
       ELSE [st EXCEPT !.plat.port[call.port].wlock = FALSE,
                       !.sess.writer = None,
                       !.io.calls[c].state = "done"]

NewCall(st, msg, len, bytes, state) ==
    [st EXCEPT !.io.calls = Append(@,
        [ msg |-> msg, len |-> len, bytes |-> bytes, counter |-> 0,
          port |-> st.sess.handle, state |-> state ])]

\* WebSerial.write on the raw port (web-serial.js 159-202)
writeRaw(st, msg) ==
    LET d == IF msg.encoding = "hex" THEN hexDecode(msg.text)
             ELSE [ok |-> TRUE, bytes |-> <<>>]
        len == IF msg.encoding = "hex" THEN Len(d.bytes) ELSE msg.len
    IN IF ~d.ok THEN emit(NewCall(st, msg, 0, <<>>, "wrongHex"), WrongHex)
       ELSE IF ~CanGetWriter(st)
       THEN emit(NewCall(st, msg, len, d.bytes, "thrown"), Thrown)
       ELSE LET h == st.sess.handle
                s1 == NewCall(st, msg, len, d.bytes, "writing")
                s2 == [s1 EXCEPT !.plat.port[h].wlock = TRUE,
                                 !.sess.writer = h]
            IN writeChunk(s2, Len(s2.io.calls))

(* WebSerial.write over util/serial (part_006 119-125) and Serial.write    *)
(* (part_007 66-81): one writer.write of the whole data for 'text' and     *)
(* 'binary', after which the writer is released at once; for another       *)
(* encoding nothing is written and the promise is never settled.           *)
writeUtil(st, msg) ==
    IF st.sess.handle = None
    THEN emit(NewCall(st, msg, msg.len, <<>>, "thrown"), Thrown)
    ELSE IF ~CanGetWriter(st) \/ st.io.errored
    THEN emit(NewCall(st, msg, msg.len, <<>>, "failed"), Rejected)
    ELSE IF msg.encoding \in {"text", "binary"}
    THEN LET s1 == NewCall(st, msg, msg.len, <<>>, "writing")
         IN [s1 EXCEPT !.io.chunks = Append(@,
                [ call |-> Len(s1.io.calls), from |-> 0, to |-> msg.len,
                  state |-> "queued" ])]
    ELSE NewCall(st, msg, msg.len, <<>>, "pending")

write(st, msg) ==
    IF st.sess.kind = "serial" THEN writeRaw(st, msg) ELSE writeUtil(st, msg)

CurIo == [sess |-> sess, plat |-> plat, out |-> <<>>, io |-> io]

IoStep(op, st) ==
    StepIo(op, [sess |-> st.sess, plat |-> st.plat, out |-> st.out], st.io)

\* the session connected on port h, as ChooserResolve, ConnectPeripheral
\* and OpenResolve leave it
ConnectedSess(k, x, h) ==
    [ kind |-> k, extensionId |-> x.extensionId, hasReset |-> x.hasReset,
      connected |-> TRUE, handle |-> h, server |-> None,
      reader |-> None, writer |-> None,
      ser |-> IF k = "serialUtil" THEN "reading" ELSE "none" ]

ConnectedPlat(k, h) ==
    [ chooser |-> 0,
      opening |-> {},
      port |-> [p \in Handles |->
                  [ state |-> IF p = h THEN "open" ELSE "closed",
                    rlock |-> (p = h /\ k = "serialUtil"),
                    wlock |-> FALSE ]],
      orphan |-> [p \in Handles |-> FALSE],
      gatt |-> [p \in Handles |-> FALSE],
      listeners |-> [p \in Handles |-> 0],
      chain |-> "none",
      wchain |-> "none",
      closeRejected |-> FALSE ]

WriteInitWith(input) ==
    /\ \E k \in {"serial", "serialUtil"}, x \in Extensions :
          /\ sess = ConnectedSess(k, x, 1)
          /\ plat = ConnectedPlat(k, 1)
    /\ out = <<>>
    /\ last = NoSession
    /\ io = [calls |-> <<>>, chunks |-> <<>>, errored |-> FALSE,
             input |-> input]
    /\ ym = NoSession
    /\ serial = NoSession
    /\ promise = <<>>
    /\ sent = <<>>
    /\ writes = <<>>
    /\ nakSeen = <<>>
    /\ closedBy = None
    /\ answered = 0

WriteInit == WriteInitWith(<<>>)

\* write(message, encoding) is called
WriteCall(msg) ==
    /\ Len(io.calls) < MaxCalls
    /\ IoStep("write", write(CurIo, msg))

\* the place in io.chunks of the chunk the port is writing
InFlight ==
    { i \in DOMAIN io.chunks :
         /\ io.chunks[i].state = "queued"
         /\ \A j \in 1..(i - 1) : io.chunks[j].state # "queued" }

(* The port has written the chunk: the promise of writer.write resolves.   *)
(* On the raw port the then of web-serial.js 191-194 counts and calls      *)
(* writeChunk; in Serial.write the promise of the call resolves.           *)
ChunkWritten ==
    /\ ~io.errored
    /\ \E i \in InFlight :
          LET c == io.chunks[i].call
              s1 == [CurIo EXCEPT !.io.chunks[i].state = "written"]
          IN IoStep("chunkWritten",
                    IF sess.kind = "serial"
                    THEN writeChunk([s1 EXCEPT !.io.calls[c].counter = @ + 1], c)
                    ELSE [s1 EXCEPT !.io.calls[c].state = "done"])

(* The port fails to write the chunk: the stream is errored, the write and *)
(* those queued behind it reject, and so do the promises of their calls;   *)
(* on the raw port the writer is not released.                             *)
ChunkFailed ==
    /\ ~io.errored
    /\ InFlight # {}
    /\ LET queued == { i \in DOMAIN io.chunks : io.chunks[i].state = "queued" }
           failing == { io.chunks[i].call : i \in queued }
           s1 == [CurIo EXCEPT
                    !.io.errored = TRUE,
                    !.io.chunks = [i \in DOMAIN @ |->
                        IF i \in queued THEN [@[i] EXCEPT !.state = "failed"]
                        ELSE @[i]],
                    !.io.calls = [c \in DOMAIN @ |->
                        IF c \in failing THEN [@[c] EXCEPT !.state = "failed"]
                        ELSE @[c]],
                    !.out = [n \in 1..Cardinality(failing) |-> Rejected]]
       IN IoStep("chunkFailed", s1)

WriteNext ==
    \/ \E msg \in WriteMessages : WriteCall(msg)
    \/ ChunkWritten
    \/ ChunkFailed

WriteSpec == WriteInit /\ [][WriteNext]_vars

(***************************************************************************)
(* ReadSpec: the reads of the two serial sessions on a connected port      *)
(* whose stream stays readable: read() of WebSerial on the raw port        *)
(* (web-serial.js 129-151), each call a loop of reads that hands the       *)
(* chunks to its onChunk, and the readLoop that Serial.open starts         *)
(* (unnamed/part_007 20-39), which emits 'data'.                           *)
(***************************************************************************)
\* ---- bounds of the model
\* read() calls of the extension
MaxReads == 3
\* chunks the port receives
MaxReadChunks == 5

\* the connected session with its reads: io.pending holds the loops that
\* have a read waiting on the reader, the oldest first
ReadInit ==
    /\ \E k \in {"serial", "serialUtil"}, x \in Extensions :
          /\ sess = ConnectedSess(k, x, 1)
          /\ plat = ConnectedPlat(k, 1)
          /\ io = [ kind |-> "read",
                    loops |-> IF k = "serialUtil" THEN 1 ELSE 0,
                    pending |-> IF k = "serialUtil" THEN <<1>> ELSE <<>>,
                    emitted |-> <<>>,
                    chunks |-> 0 ]
    /\ out = <<>>
    /\ last = NoSession
    /\ ym = NoSession
    /\ serial = NoSession
    /\ promise = <<>>
    /\ sent = <<>>
    /\ writes = <<>>
    /\ nakSeen = <<>>
    /\ closedBy = None
    /\ answered = 0

(* read(onChunk) on the raw port (web-serial.js 129-134): a reader is      *)
(* taken when the session has none, and a read is put on the session's     *)
(* reader, behind the reads that wait there.                               *)
readRaw(st) ==
    LET s1 == IF st.sess.reader = None
              THEN [st EXCEPT !.sess.reader = st.sess.handle,
                              !.plat.port[st.sess.handle].rlock = TRUE]
              ELSE st
        n == s1.io.loops + 1
    IN IF st.sess.reader = None /\ ~CanGetReader(st)
       THEN emit(st, Thrown)
       ELSE [s1 EXCEPT !.io.loops = n, !.io.pending = Append(@, n)]

ReadCall ==
    /\ sess.kind = "serial"
    /\ io.loops < MaxReads
    /\ IoStep("read", readRaw(CurIo))

(* The port has a chunk: the oldest read waiting on the reader resolves    *)
(* with it.  On the raw port dataReceived hands it to the loop's onChunk   *)
(* and puts the loop's next read on the reader (web-serial.js 135-141); in *)
(* Serial's readLoop the reader is released, 'data' is emitted and         *)
(* readLoop takes a reader and reads again (unnamed/part_007 21-33).       *)
ChunkRead ==
    /\ io.pending # <<>>
    /\ io.chunks < MaxReadChunks
    /\ LET loop == Head(io.pending)
           c == io.chunks + 1
       IN IoStep("chunkRead",
                 [CurIo EXCEPT !.io.chunks = c,
                               !.io.emitted = Append(@, [loop |-> loop,
                                                          chunk |-> c]),
                               !.io.pending = Append(Tail(@), loop)])

ReadNext ==
    \/ ReadCall
    \/ ChunkRead

ReadSpec == ReadInit /\ [][ReadNext]_vars

(***************************************************************************)
(* NotifySpec: startNotifications and read of WebBLE on a connected        *)
(* session (unnamed/part_005 103-150), and the value changes of the        *)
(* characteristics.  io.handlers[c] holds the listeners that a             *)
(* characteristicvaluechanged event on characteristic c runs, in order.    *)
(***************************************************************************)
\* ---- bounds of the model
\* characteristics of the device
MaxChars == 2
\* calls of startNotifications and read
MaxSubscribes == 2
\* value changes the device notifies
MaxValues == 1

Chars == 1..MaxChars

\* the onCharacteristicChanged arguments: two callbacks, and the default
Callbacks == {"f", "g", Null}

\* the values of a characteristic: DataViews on a buffer of their own
DataViews == { [buffer |-> b] : b \in {<<>>, <<1, 2>>} }

\* new Uint8Array(dataView.buffer)
Uint8ArrayOf(dataView) == [bytes |-> dataView.buffer]

NotifyInit ==
    /\ \E x \in Extensions :
          sess = [ConnectedSess("ble", x, 1) EXCEPT !.server = 1]
    /\ plat = [ConnectedPlat("ble", 1) EXCEPT !.gatt[1] = TRUE]
    /\ io = [ kind |-> "notify",
              pending |-> {},
              started |-> 0,
              handlers |-> [c \in Chars |-> <<>>],
              notifying |-> [c \in Chars |-> FALSE],
              installed |-> [c \in Chars |-> <<>>],
              event |-> NoSession,
              calls |-> <<>>,
              values |-> 0 ]
    /\ out = <<>>
    /\ last = NoSession
    /\ ym = NoSession
    /\ serial = NoSession
    /\ promise = <<>>
    /\ sent = <<>>
    /\ writes = <<>>
    /\ nakSeen = <<>>
    /\ closedBy = None
    /\ answered = 0

\* the call up to getPrimaryService (part_005 104, 128): the chain waits
\* for the service and the characteristic
subscribe(st, c, cb, on) ==
    [st EXCEPT !.io.started = @ + 1,
               !.io.pending = @ \cup {[ id |-> st.io.started + 1, c |-> c,
                                        cb |-> cb, on |-> on ]}]

\* startNotifications(serviceId, characteristicId, onCharacteristicChanged)
StartNotifications(c, cb) ==
    /\ io.started < MaxSubscribes
    /\ IoStep("ble.startNotifications", subscribe(CurIo, c, cb, TRUE))

\* read(serviceId, characteristicId, optStartNotifications, onCharacteristicChanged)
ReadValue(c, on, cb) ==
    /\ io.started < MaxSubscribes
    /\ IoStep("ble.readValue", subscribe(CurIo, c, cb, on))

\* a handler that is added to the listeners of the characteristic
setHandlerStacked(st, c, cb) ==
    [st EXCEPT !.io.handlers[c] = Append(@, cb),
               !.io.installed[c] = Append(@, cb)]

\* characteristic.oncharacteristicvaluechanged = event => ... (part_005
\* 108-114, 133-139): the handler attribute of the characteristic is set
setHandler(st, c, cb) ==
    [st EXCEPT !.io.handlers[c] = <<cb>>,
               !.io.installed[c] = Append(@, cb)]

(* The chain of call p has its characteristic (part_005 106-115, 130-141): *)
(* notifications are stopped, the handler is set and notifications are     *)
(* started; a read without the flag goes on to readValue at once.          *)
CharacteristicFound(p) ==
    /\ p \in io.pending
    /\ LET s1 == [CurIo EXCEPT !.io.pending = @ \ {p}]
       IN IoStep("ble.characteristic",
                 IF p.on
                 THEN [setHandler(s1, p.c, p.cb) EXCEPT
                          !.io.notifying[p.c] = TRUE]
                 ELSE s1)

\* the handlers run on the event, each with the value as a Uint8Array when
\* it has a callback (part_005 109-113, 134-138)
RECURSIVE dispatch(_, _, _, _)
dispatch(st, c, hs, dataView) ==
    IF hs = <<>> THEN st
    ELSE dispatch(IF Head(hs) # Null
                  THEN [st EXCEPT !.io.calls = Append(@,
                          [ cb |-> Head(hs), c |-> c,
                            buffer |-> Uint8ArrayOf(dataView) ])]
                  ELSE st,
                  c, Tail(hs), dataView)

\* the device notifies a new value of characteristic c
ValueChanged(c, dataView) ==
    /\ io.notifying[c]
    /\ io.values < MaxValues
    /\ IoStep("ble.valueChanged",
              dispatch([CurIo EXCEPT !.io.values = @ + 1,
                                     !.io.event = [c |-> c, value |-> dataView],
                                     !.io.calls = <<>>],
                       c, io.handlers[c], dataView))

NotifyNext ==
    \/ \E c \in Chars, cb \in Callbacks : StartNotifications(c, cb)
    \/ \E c \in Chars, on \in BOOLEAN, cb \in Callbacks : ReadValue(c, on, cb)
    \/ \E p \in io.pending : CharacteristicFound(p)
    \/ \E c \in Chars, v \in DataViews : ValueChanged(c, v)

NotifySpec == NotifyInit /\ [][NotifyNext]_vars

(***************************************************************************)
(* LoadSpec: load() of extension-support/extension-loader.js: every load   *)
(* is a job pushed to one AsyncLimiter of concurrency 1 (the async-limiter *)
(* package: the jobs are kept in order, a job is started when fewer than   *)
(* concurrency jobs are running, and the callback handed to a job ends     *)
(* it).  io.jobs holds the loads in the order load() was called.           *)
(***************************************************************************)
\* ---- bounds of the model
\* calls of load()
MaxLoads == 4

\* new AsyncLimiter({concurrency: 1}) (extension-loader.js 249)
LIMITER_CONCURRENCY == 1

ExtensionURLs == {"a.js", "b.js"}

LoadInit ==
    /\ io = [ kind |-> "load", jobs |-> <<>>, queue |-> <<>>, pending |-> 0,
              started |-> <<>> ]
    /\ sess = NoSession
    /\ plat = NoSession
    /\ out = <<>>
    /\ last = NoSession
    /\ ym = NoSession
    /\ serial = NoSession
    /\ promise = <<>>
    /\ sent = <<>>
    /\ writes = <<>>
    /\ nakSeen = <<>>
    /\ closedBy = None
    /\ answered = 0

\* the limiter starts jobs while it may: the job at the head of the queue
\* calls loadUnsandboxedExtension (extension-loader.js 251)
RECURSIVE limiterRun(_)
limiterRun(l) ==
    IF l.pending < LIMITER_CONCURRENCY /\ l.queue # <<>>
    THEN LET j == Head(l.queue)
         IN limiterRun([l EXCEPT !.queue = Tail(@),
                                 !.pending = @ + 1,
                                 !.jobs[j].state = "loading",
                                 !.started = Append(@, j)])
    ELSE l

\* limiter.push(job)
limiterPush(l, url) ==
    LET j == Len(l.jobs) + 1
    IN limiterRun([l EXCEPT !.jobs = Append(@, [url |-> url, state |-> "queued"]),
                            !.queue = Append(@, j)])

\* next(): the job is over
limiterNext(l) == limiterRun([l EXCEPT !.pending = @ - 1])

\* a job that calls next only after a load that resolved
jobSettlesThenOnly(l, j, ok) ==
    LET l1 == [l EXCEPT !.jobs[j].state = IF ok THEN "resolved" ELSE "rejected"]
    IN IF ok THEN limiterNext(l1) ELSE l1

\* the job of load(): loadUnsandboxedExtension(...).then(resolve)
\* .catch(reject).finally(next) (extension-loader.js 251-255)
jobSettles(l, j, ok) ==
    limiterNext([l EXCEPT !.jobs[j].state =
                     IF ok THEN "resolved" ELSE "rejected"])

\* load(extensionURL, vm) (extension-loader.js 250-256)
Load(url) ==
    /\ Len(io.jobs) < MaxLoads
    /\ io' = limiterPush(io, url)
    /\ UNCHANGED <<ym, serial, promise, sent, writes, nakSeen, closedBy,
                   answered, sess, plat, out, last>>

(* The promise of loadUnsandboxedExtension settles: the extension          *)
(* registered (extension-loader.js 146-149) or its script failed           *)
(* (extension-loader.js 242-244).                                          *)
LoadSettles(j, ok) ==
    /\ j \in DOMAIN io.jobs
    /\ io.jobs[j].state = "loading"
    /\ io' = jobSettles(io, j, ok)
    /\ UNCHANGED <<ym, serial, promise, sent, writes, nakSeen, closedBy,
                   answered, sess, plat, out, last>>

LoadNext ==
    \/ \E url \in ExtensionURLs : Load(url)
    \/ \E j \in 1..MaxLoads, ok \in BOOLEAN : LoadSettles(j, ok)

LoadSpec == LoadInit /\ [][LoadNext]_vars

(***************************************************************************)
(* HexSpec: one write(message, 'hex') on the raw port, for every message   *)
(* of at most MaxHexLen characters.                                        *)
(***************************************************************************)
HexInit ==
    /\ \E m \in HexMessages : WriteInitWith(m)
    /\ sess.kind = "serial"

HexWrite ==
    /\ io.calls = <<>>
    /\ IoStep("write", write(CurIo, HexMessage(io.input)))

HexNext ==
    \/ HexWrite
    \/ ChunkWritten
    \/ ChunkFailed

HexSpec == HexInit /\ [][HexNext]_vars

(***************************************************************************)
(* What the claims speak of, read off the logs.                            *)
(***************************************************************************)
Resolved == promise # <<>>
Result == promise[1]

CeilDiv(a, b) == (a + b - 1) \div b

\* the data packets of the queue (the header packet is queue[0])
NumData == Len(ym.queue) - 1

\* the places in sent where packet n of the queue was handed to sendBuffer
TxOf(n) ==
    { i \in DOMAIN sent : sent[i].buf.kind = "packet"
                          /\ sent[i].buf.payload = ym.queue[n + 1]
                          /\ sent[i].buf.b1 = n % 256 }

\* the frames carrying file data that were sent
DataFramesSent ==
    Cardinality({ i \in DOMAIN sent : sent[i].buf.kind = "packet"
                                     /\ sent[i].buf.payload.src = "data" })

\* the ACK bytes the engine took as an acknowledgement: each sent something
AcksTaken == Cardinality({ i \in DOMAIN sent : sent[i].cause = ACK })

\* the data packets acknowledged: the first ACK taken is the header's
DataAcked == IF AcksTaken = 0 THEN 0 ELSE Min(AcksTaken - 1, NumData)

(* C1: against a remote that sends CRC16 once and then ACKs every frame,   *)
(* the transfer resolves with writtenBytes = totalBytes = K and the number *)
(* of data packets sent is ceil(K / 1024), for every file size K >= 0.     *)
(* As a final result: once resolved (which under AckSpec is the clean      *)
(* completion), the result and the count are the claimed ones.             *)
C1_Original ==
    Resolved =>
        /\ Result.writtenBytes = ym.totalBytes
        /\ Result.totalBytes = ym.totalBytes
        /\ DataFramesSent = CeilDiv(ym.totalBytes, PACKET_SIZE)

(* C2: a transfer that is active when the serial transport disconnects or  *)
(* is closed eventually resolves; it does not stay pending forever.        *)
C2_Original ==
    (~serial.reading /\ ~Resolved) ~> Resolved

(* C3: when the remote sends CA after j of the N data packets were         *)
(* acknowledged (j < N), the transfer resolves with writtenBytes =         *)
(* min(j * 1024, totalBytes), the header's ACK counting for nothing, and   *)
(* not with totalBytes.  (Stated for totalBytes > 0: an empty file has     *)
(* writtenBytes = totalBytes = 0 whatever happens.)                        *)
C3_Original ==
    (/\ Resolved /\ closedBy = CA /\ ym.totalBytes > 0
     /\ AcksTaken >= 1 /\ DataAcked < NumData) =>
        /\ Result.writtenBytes = Min(DataAcked * PACKET_SIZE, ym.totalBytes)
        /\ Result.writtenBytes # Result.totalBytes

(* C4: every NAK received for packet n before its ACK makes the engine    *)
(* send packet n once more, the frame identical to the one sent before     *)
(* (sequence byte, payload, CRC): r NAKs give r retransmissions; and the   *)
(* sequence number advances only when an ACK is taken.                     *)
C4_NakRetransmits ==
    /\ \A i \in DOMAIN sent :
          (i > 1 /\ sent[i].cause = NAK /\ sent[i].buf.kind = "packet") =>
              sent[i].buf = sent[i - 1].buf
    /\ \A n \in 0..NumData :
          LET byNak == { i \in TxOf(n) : sent[i].cause = NAK }
          IN /\ Cardinality(byNak) = nakSeen[n]
             /\ Cardinality(TxOf(n) \ byNak) <= 1
             /\ \A i, j \in TxOf(n) : sent[i].buf = sent[j].buf
    /\ \A i \in DOMAIN sent :
          sent[i].buf.kind = "packet" =>
              \E n \in 0..NumData : i \in TxOf(n)
    /\ ym.seq = Cardinality({ i \in DOMAIN sent :
                                 /\ sent[i].cause = ACK
                                 /\ sent[i].buf.kind # "endsession" })

\* packet 0, sent on CRC16, was NAKed twice and then acknowledged
C4_Witness ==
    /\ sent # <<>> /\ sent[1].cause = CRC16
    /\ nakSeen[0] = 2
    /\ Cardinality(TxOf(0)) = 3
    /\ ym.seq = 1

(* C5: no pipelining: packet n+1 is first sent on an ACK handled after     *)
(* packet n was sent, with nothing sent in between, so every packet but    *)
(* the newest one sent has been acknowledged.                              *)
C5_NoPipelining ==
    /\ \A n \in 1..NumData : \A i \in TxOf(n) :
          (\A j \in TxOf(n) : i <= j) =>
              /\ sent[i].cause = ACK
              /\ i > 1
              /\ (i - 1) \in TxOf(n - 1)
    /\ \A n \in 0..NumData : TxOf(n) # {} => n <= AcksTaken

\* the second data packet was sent
C5_Witness ==
    /\ NumData >= 2
    /\ TxOf(2) # {}

(* C6: writtenBytes equals totalBytes only on a clean completion: a        *)
(* transfer of a non-empty file that resolves because of CA before the     *)
(* end-of-session header was acknowledged has writtenBytes # totalBytes.   *)
(* (Stated for totalBytes > 0: an empty file has 0 = 0 whatever happens.)  *)
C6_Original ==
    (Resolved /\ closedBy = CA /\ ym.totalBytes > 0) =>
        Result.writtenBytes # Result.totalBytes

(***************************************************************************)
(* What the session claims speak of.                                       *)
(***************************************************************************)
RECURSIVE CountEv(_, _)
CountEv(s, name) ==
    IF s = <<>> THEN 0
    ELSE (IF Head(s).ev = name THEN 1 ELSE 0) + CountEv(Tail(s), name)

LOST == "PERIPHERAL_CONNECTION_LOST_ERROR"

\* the events of a handleDisconnectError that acts: PERIPHERAL_DISCONNECTED
\* once or more, the reset callback if there is one, the loss with the id
LossReport(s, hasReset, extensionId) ==
    LET n == CountEv(s, DISCONNECTED.ev)
        tl == IF hasReset
              THEN <<ResetCallback, ErrEv(LOST, extensionId)>>
              ELSE <<ErrEv(LOST, extensionId)>>
    IN /\ n >= 1
       /\ Len(s) = n + Len(tl)
       /\ \A i \in 1..n : s[i] = DISCONNECTED
       /\ \A i \in 1..Len(tl) : s[n + i] = tl[i]

\* disconnect() ran in the step
DisconnectRan == last'.kind = "step" /\ CountEv(out', DISCONNECTED.ev) >= 1

\* the session, or its Serial, holds a reader on port h
HoldsReader(h) ==
    \/ sess.kind = "serial" /\ sess.reader = h /\ plat.port[h].rlock
    \/ sess.kind = "serialUtil" /\ sess.handle = h /\ sess.ser = "reading"

HoldsWriter(h) ==
    sess.kind = "serial" /\ sess.writer = h /\ plat.port[h].wlock

(* C7: handleDisconnectError on a connected session clears the connected   *)
(* flag and emits, in this order, PERIPHERAL_DISCONNECTED (disconnect()),  *)
(* the reset callback if there is one, and PERIPHERAL_CONNECTION_LOST_ERROR*)
(* with the session's extensionId, and nothing else; on a session that is  *)
(* not connected it emits nothing and changes neither the session nor the  *)
(* platform.                                                               *)
C7_HandleDisconnectError ==
    [][ (last'.kind = "step" /\ last'.op = "handleDisconnectError") =>
           IF sess.connected
           THEN /\ ~sess'.connected
                /\ LossReport(out', sess.hasReset, sess.extensionId)
           ELSE /\ out' = <<>>
                /\ sess' = sess
                /\ plat' = plat ]_vars

C7_Witness ==
    /\ last.kind = "step" /\ last.op = "handleDisconnectError" /\ last.was
    /\ sess.hasReset
    /\ out = <<DISCONNECTED, ResetCallback, ErrEv(LOST, sess.extensionId)>>

(* C8 as stated: of two disconnect() calls in a row on a connected session *)
(* the two together emit PERIPHERAL_DISCONNECTED once, and                 *)
(* handleDisconnectError on a session that is not connected emits neither  *)
(* PERIPHERAL_DISCONNECTED nor PERIPHERAL_CONNECTION_LOST_ERROR.           *)
C8_Original ==
    [][ /\ (last'.kind = "step" /\ last'.op = "disconnect" /\ last'.run = 2) =>
              CountEv(out, DISCONNECTED.ev)
                 + CountEv(out', DISCONNECTED.ev) = 1
        /\ (/\ last'.kind = "step" /\ last'.op = "handleDisconnectError"
            /\ ~sess.connected) =>
              /\ CountEv(out', DISCONNECTED.ev) = 0
              /\ CountEv(out', LOST) = 0 ]_vars

(* C8 amended: every disconnect() call emits PERIPHERAL_DISCONNECTED, the  *)
(* second of two calls in a row exactly once, so that two calls in a row   *)
(* on a connected session emit it twice or more; handleDisconnectError on  *)
(* a session that is not connected emits neither PERIPHERAL_DISCONNECTED   *)
(* nor PERIPHERAL_CONNECTION_LOST_ERROR.                                   *)
C8_Amended ==
    [][ /\ (last'.kind = "step" /\ last'.op = "disconnect") =>
              CountEv(out', DISCONNECTED.ev) >= 1
        /\ (last'.kind = "step" /\ last'.op = "disconnect" /\ last'.run = 2) =>
              /\ CountEv(out', DISCONNECTED.ev) = 1
              /\ CountEv(out, DISCONNECTED.ev)
                    + CountEv(out', DISCONNECTED.ev) >= 2
        /\ (/\ last'.kind = "step" /\ last'.op = "handleDisconnectError"
            /\ ~sess.connected) =>
              /\ CountEv(out', DISCONNECTED.ev) = 0
              /\ CountEv(out', LOST) = 0 ]_vars

C8_Witness ==
    /\ last.kind = "step" /\ last.op = "disconnect" /\ last.run = 2
    /\ out = <<DISCONNECTED>>

(* C9: disconnect() can be called in every state; when it has run the      *)
(* session is not connected, holds no port, Serial, device or server, every*)
(* reader or writer lock it held is released, and PERIPHERAL_DISCONNECTED  *)
(* was emitted.                                                            *)
C9_Original ==
    /\ [](ENABLED Disconnect)
    /\ [][ /\ (last'.kind = "step" /\ last'.op = "disconnect") =>
                 CountEv(out', DISCONNECTED.ev) >= 1
           /\ DisconnectRan =>
                 /\ ~sess'.connected
                 /\ sess'.handle = None
                 /\ sess'.server = None
                 /\ \A h \in Handles :
                       /\ HoldsReader(h) => ~plat'.port[h].rlock
                       /\ HoldsWriter(h) => ~plat'.port[h].wlock ]_vars

\* the transport of a connected session signals its loss
LossSignal ==
    /\ sess.connected
    /\ \/ \E h \in Handles : h = sess.handle /\ SerialDisconnectEvent(h)
       \/ SerialReadErrorEvent
       \/ \E h \in Handles : h = sess.server /\ GattServerDisconnected(h)

(* C10: when the transport of a connected session signals its loss, by the *)
(* serial disconnect or read-error event or by gattserverdisconnected, the *)
(* session is disconnected, the reset callback, if any, is invoked, and    *)
(* PERIPHERAL_CONNECTION_LOST_ERROR is emitted after the reset callback    *)
(* and after PERIPHERAL_DISCONNECTED.                                      *)
C10_Original ==
    [][ LossSignal =>
           /\ ~sess'.connected
           /\ LossReport(out', sess.hasReset, sess.extensionId) ]_vars

(* C11: for one established connection the signals of loss, whatever their *)
(* number and order, emit PERIPHERAL_CONNECTION_LOST_ERROR at most once,   *)
(* invoke the reset callback at most once and emit PERIPHERAL_DISCONNECTED *)
(* at most once.                                                           *)
C11_Original ==
    [][ (last'.kind = "step" /\ last'.op \in LossOps) =>
           \A e \in LossEvents :
              CountEv(out', e) + (IF e \in Seen THEN 1 ELSE 0) <= 1 ]_vars

\* the buffers sent because of a NAK
NakSends == { i \in DOMAIN sent : sent[i].cause = NAK }

(* C20: on every NAK taken while the transfer is not finished, the engine  *)
(* sends once more the frame it sent last (header packet, data packet,     *)
(* EOT or end-of-session header), unchanged, and the sequence number and   *)
(* writtenBytes stay as the ACKs left them.  Stated for the transfers that *)
(* began with CRC16, so that every NAK has a frame before it.              *)
C20_Original ==
    (sent # <<>> /\ sent[1].cause = CRC16) =>
       /\ Cardinality(NakSends) = NakTotal
       /\ \A i \in NakSends : i > 1 /\ sent[i].buf = sent[i - 1].buf
       /\ ym.seq = Cardinality({ i \in DOMAIN sent :
                                    /\ sent[i].cause = ACK
                                    /\ sent[i].buf.kind # "endsession" })
       /\ ym.writtenBytes = Min(ym.seq * PACKET_SIZE, ym.totalBytes)

REQUEST_ERROR == "PERIPHERAL_REQUEST_ERROR"

(* C12: when the chooser fails or is cancelled, requestPeripheral emits    *)
(* PERIPHERAL_REQUEST_ERROR once, with the session's extensionId, and      *)
(* nothing else (runtime.connectPeripheral is not called), and the         *)
(* connected flag and the stored port, Serial, device and server stay as   *)
(* they were.                                                              *)
C12_ChooserFailure ==
    [][ (last'.kind = "step" /\ last'.op = "chooserReject") =>
           /\ out' = <<ErrEv(REQUEST_ERROR, sess.extensionId)>>
           /\ sess' = sess ]_vars

\* the chooser failed while the session was connected on a port or device
C12_Witness ==
    /\ last.kind = "step" /\ last.op = "chooserReject"
    /\ sess.connected /\ sess.handle # None
    /\ out = <<ErrEv(REQUEST_ERROR, sess.extensionId)>>

(* C13: connectPeripheral with no handle chosen emits                      *)
(* PERIPHERAL_REQUEST_ERROR and opens nothing; when the open or the GATT   *)
(* connect fails, PERIPHERAL_REQUEST_ERROR is emitted, a session that was  *)
(* not connected stays so and the connect callback is not invoked; when it *)
(* succeeds the session is connected, PERIPHERAL_CONNECTED is emitted and  *)
(* the connect callback invoked once, and no error event is emitted.       *)
C13_Original ==
    [][ /\ (/\ last'.kind = "step" /\ last'.op = "connectPeripheral"
            /\ sess.handle = None) =>
              /\ out' = <<ErrEv(REQUEST_ERROR, sess.extensionId)>>
              /\ plat'.opening = plat.opening
              /\ sess' = sess
        /\ (last'.kind = "step" /\ last'.op = "openReject") =>
              /\ out' = <<ErrEv(REQUEST_ERROR, sess.extensionId)>>
              /\ ~sess.connected => ~sess'.connected
        /\ (last'.kind = "step" /\ last'.op = "openResolve") =>
              /\ sess'.connected
              /\ out' = <<CONNECTED, ConnectCallback>> ]_vars

\* the steps of read() and write() and of the promises they return
IoOps ==
    { "read", "readSettle", "readError", "write", "writeSettle",
      "ble.read", "ble.write" }

(* C14: read() and write() never throw at their caller and never hand a    *)
(* transport failure to the caller as a rejection or report it as a        *)
(* request error, whatever the state of the session: a failure is reported *)
(* through handleDisconnectError alone.                                    *)
C14_Original ==
    [][ (last'.kind = "step" /\ last'.op \in IoOps) =>
           \A i \in DOMAIN out' :
              out'[i].ev \notin {Thrown.ev, Rejected.ev, REQUEST_ERROR} ]_vars

\* the chunks write() call c gave to the port, in order
ChunksOf(c) == SelectSeq(io.chunks, LAMBDA k : k.call = c)

(* C15: write() on the raw port gives a payload of L bytes to the port in  *)
(* ceil(L / 255) chunk writes, the k-th being bytes (k-1)*255 up to        *)
(* min(k*255, L), so every chunk but the last has 255 bytes and the chunks *)
(* in order make up the payload; a chunk is given to the port only when    *)
(* the one before it has been written.                                     *)
C15_Chunking ==
    sess.kind = "serial" =>
       \A c \in DOMAIN io.calls :
          Call(c).state \in {"writing", "done", "failed"} =>
             LET mine == ChunksOf(c)
                 n == CeilDiv(Call(c).len, CHUNK_SIZE)
             IN /\ Len(mine) <= n
                /\ \A k \in DOMAIN mine :
                      /\ mine[k].from = (k - 1) * CHUNK_SIZE
                      /\ mine[k].to = Min(k * CHUNK_SIZE, Call(c).len)
                      /\ k < Len(mine) => mine[k].state = "written"
                /\ Call(c).state = "done" =>
                      /\ Len(mine) = n
                      /\ \A k \in DOMAIN mine : mine[k].state = "written"

\* 600 bytes were written as 255, 255 and 90
C15_Witness ==
    /\ sess.kind = "serial"
    /\ \E c \in DOMAIN io.calls :
          /\ Call(c).len = 600 /\ Call(c).state = "done"
          /\ [k \in 1..Len(ChunksOf(c)) |->
                 ChunksOf(c)[k].to - ChunksOf(c)[k].from] = <<255, 255, 90>>

IsHexDigit(c) == c \in DOMAIN HexValue

\* the bytes that the hex digits of s spell, two digits a byte
BytesOf(s) ==
    [i \in 1..(Len(s) \div 2) |->
        16 * HexValue[s[2 * i - 1]] + HexValue[s[2 * i]]]

\* the message without its white space
NoSpace(s) == SelectSeq(s, LAMBDA c : c # " ")

\* write(message, 'hex') failed before it took the writer or wrote a byte
FailedEncoding ==
    /\ Call(1).state = "wrongHex"
    /\ out = <<WrongHex>>
    /\ io.chunks = <<>>
    /\ sess.writer = None
    /\ \A h \in Handles : ~plat.port[h].wlock

\* write(message, 'hex') took the writer and gave the port the bytes
WroteBytes(bytes) ==
    /\ Call(1).state \in {"writing", "done", "failed"}
    /\ Call(1).bytes = bytes
    /\ io.chunks # <<>>
    /\ io.chunks[1].from = 0
    /\ io.chunks[1].to = Min(Len(bytes), CHUNK_SIZE)

(* C16 as stated: write(message, 'hex') turns a message of an even number  *)
(* of hex digits into the bytes they spell; a message of odd length, or    *)
(* with a character that is no hex digit, fails with an encoding error     *)
(* before the writer is taken and before a byte reaches the port.          *)
C16_Original ==
    io.calls # <<>> =>
       LET m == io.input
       IN /\ (/\ m # <<>> /\ Len(m) % 2 = 0
              /\ \A i \in DOMAIN m : IsHexDigit(m[i])) =>
                 WroteBytes(BytesOf(m))
          /\ (Len(m) % 2 = 1 \/ \E i \in DOMAIN m : ~IsHexDigit(m[i])) =>
                 FailedEncoding

(* C16 amended: white space is removed from the message first.  If what is *)
(* left is a non-empty string of an even number of hex digits, the bytes   *)
(* they spell are written; if it is empty, of odd length or has a          *)
(* character that is no hex digit, the promise is rejected before the      *)
(* writer is taken and before a byte reaches the port.                     *)
C16_Amended ==
    io.calls # <<>> =>
       LET data == NoSpace(io.input)
       IN IF /\ data # <<>> /\ Len(data) % 2 = 0
             /\ \A i \in DOMAIN data : IsHexDigit(data[i])
          THEN WroteBytes(BytesOf(data))
          ELSE FailedEncoding

\* "a 1" was written as the byte 0xA1
C16_Witness ==
    /\ io.input = <<"a", " ", "1">>
    /\ io.calls # <<>>
    /\ Call(1).state = "done"
    /\ Call(1).bytes = <<161>>

\* the write() calls whose promise is still open
WritesInFlight == { c \in DOMAIN io.calls : io.calls[c].state = "writing" }

\* the chunks of one call reach the port with no chunk of another between
NoInterleaving ==
    \A i, j, k \in DOMAIN io.chunks :
        (i < j /\ j < k /\ io.chunks[i].call = io.chunks[k].call) =>
            io.chunks[j].call = io.chunks[i].call

(* C17: a write() called while another write() on the port is in flight    *)
(* queues: it does not fail because the writer lock is taken, and the      *)
(* bytes of the two writes reach the port without interleaving.            *)
C17_Original ==
    [][ (last'.kind = "step" /\ last'.op = "write" /\ WritesInFlight # {}) =>
           /\ Len(io'.calls) = Len(io.calls) + 1
           /\ io'.calls[Len(io'.calls)].state \notin {"thrown", "failed"}
           /\ out' = <<>>
           /\ NoInterleaving' ]_vars

\* a read of the serial port failed in the step
ReadErrorOps == {"readError", "serial.readError"}

(* C18: an error from a read of the serial port of a connected session is  *)
(* treated as a disconnect: the session goes through its disconnect-error  *)
(* path (disconnect, reset callback, PERIPHERAL_CONNECTION_LOST_ERROR) and *)
(* no PERIPHERAL_REQUEST_ERROR is emitted.                                 *)
C18_Original ==
    [][ (last'.kind = "step" /\ last'.op \in ReadErrorOps /\ sess.connected) =>
           /\ CountEv(out', REQUEST_ERROR) = 0
           /\ ~sess'.connected
           /\ LossReport(out', sess.hasReset, sess.extensionId) ]_vars

\* disconnect() ran in the step on a serial session that held a port, and
\* so closed its transport
CloseRan ==
    /\ DisconnectRan
    /\ sess.kind \in {"serial", "serialUtil"}
    /\ sess.handle # None

(* C19: closing the serial transport is safe in every state, also when the *)
(* port is already closed and while a read is in flight: it leaves the     *)
(* port closed with no reader lock held, and the close does not fail.      *)
C19_Original ==
    [][ CloseRan =>
           /\ plat'.port[sess.handle].state = "closed"
           /\ ~plat'.port[sess.handle].rlock
           /\ plat'.closeRejected => plat.closeRejected ]_vars

(***************************************************************************)
(* The order of the frames, the end of the transfer, cancellation.         *)
(***************************************************************************)
\* frame i of a clean run of a queue of n packets: the packets in order,
\* then EOT, then the end-of-session header
CleanFrame(i) ==
    LET n == Len(ym.queue)
        f == sent[i].buf
    IN /\ i <= n + 2
       /\ sent[i].cause = IF i = 1 THEN CRC16 ELSE ACK
       /\ i <= n => /\ f.kind = "packet"
                    /\ f.b1 = (i - 1) % 256
                    /\ f.payload = ym.queue[i]
       /\ i = n + 1 => f.kind = "eot"
       /\ i = n + 2 => f.kind = "endsession"

(* C21: on a clean run (CRC16, then an ACK for every frame, no NAK) the    *)
(* frames go out in the order header packet, data packets 1..N, EOT,       *)
(* end-of-session header, each exactly once; every frame after the first   *)
(* is sent on the ACK of the one before it, so the EOT follows the ACK of  *)
(* the last data packet and the end-of-session header the ACK of the EOT.  *)
C21_CleanOrder ==
    /\ \A i \in DOMAIN sent : CleanFrame(i)
    /\ Len(sent) <= answered + 1
    /\ sent = <<>> => answered = 0

\* a clean run of a file of two data packets has sent its five frames
C21_Witness ==
    /\ NumData = 2
    /\ Len(sent) = 5
    /\ sent[4].buf.kind = "eot"
    /\ sent[5].buf.kind = "endsession"

\* the end-of-session header was handed to sendBuffer
EndSessionSent ==
    \E i \in DOMAIN sent : sent[i].buf.kind = "endsession"

(* C22: once the EOT was acknowledged and the end-of-session header sent,  *)
(* the transfer is finalized with no further byte from the remote: the     *)
(* handler run that sent the header also resolved the promise, with        *)
(* writtenBytes = totalBytes.                                              *)
C22_Original ==
    EndSessionSent =>
        /\ Resolved
        /\ Result.writtenBytes = ym.totalBytes
        /\ Result.totalBytes = ym.totalBytes

\* the transfer as the handler finds it at the next 'data' event
Now ==
    [ ym |-> ym, listeners |-> serial.listeners, promise |-> promise,
      sent |-> sent, writes |-> writes, nakSeen |-> nakSeen,
      closedBy |-> closedBy ]

\* the place of the first CA in data
FirstCa(data) ==
    CHOOSE k \in DOMAIN data :
        data[k] = CA /\ \A j \in 1..(k - 1) : data[j] # CA

\* the bytes of the data packets acknowledged in the log of sent buffers:
\* every ACK taken but the first, which is the header packet's
AckedBytes(log, queue, totalBytes) ==
    LET acks == Cardinality({ i \in DOMAIN log : log[i].cause = ACK })
        n == IF acks = 0 THEN 0 ELSE Min(acks - 1, Len(queue) - 1)
    IN Min(n * PACKET_SIZE, totalBytes)

\* a 'data' event with a CA in it, on an active transfer that is still
\* active when the CA's turn comes: what the bytes before the CA did stays,
\* the promise is resolved with the bytes acknowledged up to there, the
\* listener is removed, and the bytes after the CA do nothing
CaAborts(data) ==
    LET k == FirstCa(data)
        s1 == handler(Now, SubSeq(data, 1, k - 1))
        s2 == handler(Now, data)
    IN ("handler" \in serial.listeners /\ ~s1.ym.finished) =>
          /\ s2.promise = Append(s1.promise,
                [ filePath |-> ym.filename,
                  totalBytes |-> ym.totalBytes,
                  writtenBytes |->
                      AckedBytes(s1.sent, ym.queue, ym.totalBytes) ])
          /\ "handler" \notin s2.listeners
          /\ s2.ym.finished
          /\ s2.sent = s1.sent
          /\ s2.writes = s1.writes

(* C23: a CA received at any point of an active transfer resolves the      *)
(* promise at once with the bytes acknowledged so far, removes the 'data'  *)
(* listener and lets nothing more be written; the bytes after the CA, in   *)
(* the same 'data' event or in later ones, have no effect.                 *)
C23_Original ==
    /\ [](\A data \in Chunks : (\E k \in DOMAIN data : data[k] = CA) =>
                                  CaAborts(data))
    /\ [][closedBy = CA =>
             /\ sent' = sent /\ writes' = writes
             /\ promise' = promise /\ ym' = ym]_vars

\* emit('data', data) on the serial: the handler runs if it still listens
Deliver(s, data) ==
    IF "handler" \in s.listeners THEN handler(s, data) ELSE s

\* the bytes of data delivered one per 'data' event, in order
RECURSIVE OneByOne(_, _)
OneByOne(s, data) ==
    IF data = <<>> THEN s
    ELSE OneByOne(Deliver(s, <<Head(data)>>), Tail(data))

(* C24: what the engine does depends on the bytes received and not on how  *)
(* they are grouped into 'data' events: in every state, two bytes          *)
(* delivered in one event leave the same frames sent, the same state and   *)
(* the same result as the two delivered one per event, and a handler that  *)
(* was removed is finished.  For an event of more bytes the same follows   *)
(* byte by byte, every state on the way being a reachable one.             *)
C24_Grouping ==
    [](/\ \A data \in SeqsOfLen(RxBytes, 2) :
             Deliver(Now, data) = OneByOne(Now, data)
       /\ "handler" \notin serial.listeners => ym.finished)

\* CRC16, ACK and CA were handled: two frames sent, then the abort
C24_Witness ==
    /\ Len(sent) = 2
    /\ sent[1].cause = CRC16 /\ sent[2].cause = ACK
    /\ closedBy = CA /\ Resolved

\* r NAK bytes in a row
Naks(r) == [i \in 1..r |-> NAK]

\* the frame sent last is answered with r NAKs: it is sent r times more,
\* and the transfer stays active and unresolved
NakRetries(r) ==
    LET s2 == handler(Now, Naks(r))
    IN /\ Len(s2.sent) = Len(sent) + r
       /\ \A i \in (Len(sent) + 1)..Len(s2.sent) :
             s2.sent[i].buf = sent[Len(sent)].buf
       /\ s2.promise = promise
       /\ ~s2.ym.finished
       /\ "handler" \in s2.listeners

(* C25: there is no retry limit: in a transfer that began with CRC16 and   *)
(* is active, r NAKs in a row for the frame sent last give r               *)
(* retransmissions of it, for every r, and leave the transfer active and   *)
(* unresolved: NAKs alone never resolve the promise.                       *)
C25_Original ==
    (/\ sent # <<>> /\ sent[1].cause = CRC16
     /\ ~ym.finished /\ "handler" \in serial.listeners) =>
        \A r \in 1..(MaxNak + 1) : NakRetries(r)

(***************************************************************************)
(* crc16 against CRC-16/XMODEM.                                            *)
(***************************************************************************)
\* k shifts of the register of CRC-16/XMODEM: polynomial 0x1021, the top
\* bit first
RECURSIVE XmodemShift(_, _)
XmodemShift(crc, k) ==
    IF k = 0 THEN crc
    ELSE XmodemShift(IF crc >= 32768
                     THEN Xor((crc * 2) % 65536, 4129)
                     ELSE (crc * 2) % 65536,
                     k - 1)

\* CRC-16/XMODEM of b[1..n] bit by bit: initial value 0, no reflection, no
\* final XOR
RECURSIVE Xmodem(_, _)
Xmodem(b, n) ==
    IF n = 0 THEN 0
    ELSE XmodemShift(Xor(Xmodem(b, n - 1), b[n] * 256), 8)

\* the bytes that differ from v: v with one bit flipped, v complemented,
\* and the bytes of CrcBytes
OtherBytes(v) ==
    ({ Xor(v, 2 ^ k) : k \in 0..7 } \cup {255 - v} \cup CrcBytes) \ {v}

(* C29: crc16(b) is in 0..65535 and is the bit-by-bit CRC-16/XMODEM of b   *)
(* (polynomial 0x1021, initial value 0, no reflection, no final XOR), the  *)
(* same at every call; and a change of one byte of b changes the result.   *)
C29_Crc16 ==
    io.called =>
        /\ io.crc \in 0..65535
        /\ io.crc = Xmodem(io.current, Len(io.current))
        /\ io.crc = crc16(io.current)
        /\ \A i \in DOMAIN io.current : \A v \in OtherBytes(io.current[i]) :
              crc16([io.current EXCEPT ![i] = v]) # io.crc

\* crc16 of three bytes was computed and is not 0
C29_Witness ==
    /\ io.called
    /\ io.current = <<1, 128, 255>>
    /\ io.crc # 0

(***************************************************************************)
(* The frames.                                                             *)
(***************************************************************************)
\* frame i of a clean run carries packet i - 1 of the queue: STX, the index
\* modulo 256, its complement, the 1024 bytes of the payload, and the CRC
\* of that payload, 1029 bytes in all
QueueFrame(i) ==
    LET f == sent[i].buf
        seqByte == (i - 1) % 256
    IN /\ f.b0 = STX
       /\ f.b1 = seqByte
       /\ f.b2 = 255 - seqByte
       /\ f.b1 \in 0..255 /\ f.b2 \in 0..255
       /\ f.payload = ym.queue[i]
       /\ f.payload.alloc = PACKET_SIZE
       /\ f.crcOf = f.payload
       /\ BufLen(f) = 3 + PACKET_SIZE + 2

\* the end-of-session header: STX, 0, 0xFF, 1024 zero bytes and two zero
\* bytes, which is the CRC of the zero payload
NullFrame(i) ==
    LET f == sent[i].buf
    IN /\ f.b0 = STX /\ f.b1 = 0 /\ f.b2 = 255 - f.b1
       /\ f.fill = 0
       /\ crc16Step(0, f.fill) = 0
       /\ BufLen(f) = 3 + PACKET_SIZE + 2

(* C26: every frame sent with a packet header is 1029 bytes: STX, the      *)
(* packet's index in the queue modulo 256 (0 for the end-of-session        *)
(* header), 0xFF minus that byte, the payload of 1024 bytes and the CRC of *)
(* the payload; also when the index passes 255.                            *)
C26_Framing ==
    \A i \in DOMAIN sent :
        /\ sent[i].buf.kind = "packet" => QueueFrame(i)
        /\ sent[i].buf.kind = "endsession" => NullFrame(i)

\* packet 256 of the queue went out with sequence byte 0, and the run came
\* to its end-of-session header
C26_Witness ==
    /\ Len(sent) = Len(ym.queue) + 2
    /\ sent[257].buf.kind = "packet" /\ sent[257].buf.b1 = 0
    /\ sent[258].buf.b1 = 1
    /\ sent[Len(sent)].buf.kind = "endsession"

\* packet n of the queue holds the n-th 1024 bytes of the file, or what is
\* left of it, in a block of 1024 bytes
HoldsSlice(n) ==
    LET p == ym.queue[n + 1]
    IN /\ p.src = "data"
       /\ p.alloc = PACKET_SIZE
       /\ p.from = (n - 1) * PACKET_SIZE
       /\ p.to = Min(n * PACKET_SIZE, ym.totalBytes)

\* the bytes of packet n after the file's bytes are zero
ZeroPadded(n) ==
    LET p == ym.queue[n + 1]
    IN (p.to - p.from < p.alloc) => p.fill = 0

(* C28: for a file of K bytes the queue is the header packet and then      *)
(* ceil(K / 1024) data packets of 1024 bytes; the payloads in order, cut   *)
(* to K bytes, are the file, and the bytes of the last packet after the    *)
(* end of the file are zero.  (Stated for K > 0: the queue of an empty     *)
(* file is the matter of C1.)                                              *)
C28_Original ==
    ym.totalBytes > 0 =>
        /\ ym.queue[1].src = "header"
        /\ NumData = CeilDiv(ym.totalBytes, PACKET_SIZE)
        /\ \A n \in 1..NumData : HoldsSlice(n) /\ ZeroPadded(n)

\* the write() calls whose promise has settled
SettledWrites ==
    { c \in DOMAIN io.calls :
         io.calls[c].state \in {"done", "failed", "thrown", "wrongHex"} }

\* the write() calls that took the writer of the port and handed it a chunk
AcquiredWrites ==
    { c \in DOMAIN io.calls : \E i \in DOMAIN io.chunks : io.chunks[i].call = c }

(* C30: a write() that took the writer lock gives it back when it is done,  *)
(* its chunks written or failed: once the calls that took the lock have    *)
(* settled, no port holds a writer lock, the session holds no writer and   *)
(* the next write() can take the writer.                                   *)
C30_Original ==
    (AcquiredWrites # {} /\ AcquiredWrites \subseteq SettledWrites) =>
        /\ \A h \in Handles : ~plat.port[h].wlock
        /\ sess.writer = None
        /\ CanGetWriter(CurIo)

\* the transfer sessions active on the serial: the handlers listening
ActiveTransfers == Cardinality(serial.listeners)

(* C27: at most one transfer session is active on a serial at any time: a  *)
(* transfer() called while the transfer before it is unresolved does not   *)
(* run together with it, and no byte received is reacted to by two         *)
(* sessions.                                                               *)
C27_Original ==
    /\ ActiveTransfers <= 1
    /\ Cardinality(io.reacted) <= 1

(* C36: until the first CRC16 byte is received the engine writes nothing    *)
(* to the port, whatever other bytes arrive: the first frame sent is the   *)
(* header packet, and it is sent on a CRC16.                               *)
C36_Original ==
    sent # <<>> =>
        /\ sent[1].cause = CRC16
        /\ sent[1].buf.kind = "packet" /\ sent[1].buf.payload = ym.queue[1]

\* the closure after handler has taken one more byte ch
After(ch) == handleByte(Now, ch)

(* C37: a CRC16 byte received after the header packet has been sent sends  *)
(* nothing and changes nothing of the transfer (seq, writtenBytes, sending,*)
(* session), at every later point of the transfer, also after the          *)
(* end-of-session header was sent.                                         *)
C37_Original ==
    (sent # <<>> /\ sent[1].cause = CRC16 /\ "handler" \in serial.listeners) =>
        /\ After(CRC16).sent = sent
        /\ After(CRC16).writes = writes
        /\ After(CRC16).ym = ym

(* C38: throughout a transfer 0 <= writtenBytes <= totalBytes; a byte      *)
(* taken by the handler never lowers writtenBytes, and changes it only     *)
(* when the byte is an ACK and the transfer is sending.                    *)
C38_WrittenBytes ==
    [](/\ 0 <= ym.writtenBytes /\ ym.writtenBytes <= ym.totalBytes
       /\ \A ch \in RxBytes :
             /\ After(ch).ym.writtenBytes >= ym.writtenBytes
             /\ After(ch).ym.writtenBytes # ym.writtenBytes =>
                   (ch = ACK /\ ym.sending /\ ~ym.finished))

\* an ACK raised writtenBytes, and not yet to totalBytes
C38_Witness ==
    /\ sent # <<>> /\ sent[Len(sent)].cause = ACK
    /\ 0 < ym.writtenBytes /\ ym.writtenBytes < ym.totalBytes
    /\ After(ACK).ym.writtenBytes > ym.writtenBytes

\* the serial.write calls made for frame n of sent, in call order
WritesOf(n) == SelectSeq(writes, LAMBDA w : w.frame = n)

\* the chunks ws, one after the other, are the buffer of len bytes and
\* nothing more: each holds the bytes after those of the one before, and
\* as many bytes as it took from the buffer
ExactlyTheFrame(ws, len) ==
    /\ ws # <<>>
    /\ ws[1].chunk.from = 0
    /\ ws[Len(ws)].chunk.to = len
    /\ \A i \in DOMAIN ws :
          /\ ws[i].chunk.alloc = ws[i].chunk.to - ws[i].chunk.from
          /\ i > 1 => ws[i].chunk.from = ws[i - 1].chunk.to

(* C39: the bytes handed to serial.write for one frame, in call order, are *)
(* that frame and nothing more: 1029 bytes for a packet or an              *)
(* end-of-session header, the one byte 0x04 for EOT.                       *)
C39_Original ==
    \A n \in DOMAIN sent : ExactlyTheFrame(WritesOf(n), BufLen(sent[n].buf))

\* the read loops that have a read waiting on the port
ActiveReadLoops == { io.pending[i] : i \in DOMAIN io.pending }

\* the chunks were handed on in the order the port read them
EmittedInOrder ==
    \A i, j \in DOMAIN io.emitted :
        i < j => io.emitted[i].chunk < io.emitted[j].chunk

(* C31: while a serial port is open there is at most one read loop and at  *)
(* most one reader lock, whatever calls are made: the reads that wait on   *)
(* the port belong to one loop, they wait on a reader that holds the       *)
(* port's lock, and the chunks are handed on in the order they were read.  *)
C31_Original ==
    /\ Cardinality(ActiveReadLoops) <= 1
    /\ Len(io.pending) <= 1
    /\ io.pending # <<>> => plat.port[1].rlock
    /\ EmittedInOrder

\* the step made the session Connected or emitted PERIPHERAL_CONNECTED
BecameConnected ==
    \/ ~sess.connected /\ sess'.connected
    \/ \E i \in DOMAIN out' : out'[i] = CONNECTED

(* C32: the session becomes Connected, and PERIPHERAL_CONNECTED is         *)
(* emitted, only when the open or GATT connect of a device it requested    *)
(* succeeds, and never after its disconnect() unless a new request and     *)
(* connect were started since: the session that becomes Connected still    *)
(* holds the handle it asked to open and was not Connected.                *)
C32_Original ==
    [][ BecameConnected =>
           /\ last'.kind = "step" /\ last'.op = "openResolve"
           /\ sess.handle # None
           /\ ~sess.connected ]_vars

\* the handler set last on characteristic c
LastInstalled(c) == io.installed[c][Len(io.installed[c])]

(* C33: the notification handler of a characteristic is one slot: once     *)
(* startNotifications, or read with the flag, has set handler g on a       *)
(* characteristic that had handler f, a value change calls g once, with    *)
(* the value as a byte array, and does not call f.                         *)
C33_SingleSlot ==
    [][ (last'.kind = "step" /\ last'.op = "ble.valueChanged") =>
           LET c == io'.event.c
           IN /\ io.installed[c] # <<>>
              /\ io'.calls = IF LastInstalled(c) = Null THEN <<>>
                             ELSE << [ cb |-> LastInstalled(c), c |-> c,
                                       buffer |-> [bytes |->
                                          io'.event.value.buffer] ] >> ]_vars

\* g was set on a characteristic that had f, and a value change called g
C33_Witness ==
    /\ last.kind = "step" /\ last.op = "ble.valueChanged"
    /\ \E c \in Chars :
          /\ Len(io.installed[c]) = 2
          /\ io.installed[c][1] = "f" /\ io.installed[c][2] = "g"
          /\ io.calls = << [ cb |-> "g", c |-> c,
                             buffer |-> [bytes |-> <<1, 2>>] ] >>

\* the loads in progress: started and not settled
LoadsInProgress == { j \in DOMAIN io.jobs : io.jobs[j].state = "loading" }

\* the loads that wait to be started
LoadsQueued == { j \in DOMAIN io.jobs : io.jobs[j].state = "queued" }

(* C34: extension loads go one at a time through the one queue: never two  *)
(* loads in progress, the loads start in the order load() was called, and  *)
(* a queued load is started as soon as the load before it has settled,     *)
(* resolved or rejected, so that loads wait only while one is in progress. *)
C34_OneAtATime ==
    /\ Cardinality(LoadsInProgress) <= 1
    /\ io.started = [i \in 1..Len(io.started) |-> i]
    /\ LoadsQueued # {} => LoadsInProgress # {}
    /\ \A j \in LoadsInProgress : \A i \in 1..(j - 1) :
          io.jobs[i].state \in {"resolved", "rejected"}

\* a load was rejected and the load queued behind it is in progress, with
\* another waiting
C34_Witness ==
    /\ Len(io.jobs) >= 3
    /\ io.jobs[1].state = "rejected"
    /\ io.jobs[2].state = "loading"
    /\ io.jobs[3].state = "queued"

\* the session holds its transport: the port, the Serial, or the device
\* and its server
HoldsTransport ==
    /\ sess.handle # None
    /\ sess.kind = "ble" => sess.server # None

(* C35: in every state, isConnected() = true implies that the session      *)
(* holds its transport handle, also when disconnect() was called while the *)
(* open or GATT connect of connectPeripheral was pending and that          *)
(* operation completed afterwards.                                         *)
C35_Original == sess.connected => HoldsTransport

\* a disconnect signal of a serial device that is not the one the session
\* is connected to: navigator.serial's 'disconnect' for another port, or
\* the 'disconnect' of the Serial of a port the session has replaced
ForeignDisconnect ==
    /\ sess.connected
    /\ sess.handle # None
    /\ \E h \in Ports :
          /\ h # sess.handle
          /\ SerialDisconnectEvent(h) \/ OrphanReadErrorEvent(h)

\* the step told the runtime or the extension of a loss
LossReported ==
    \E i \in DOMAIN out' :
        out'[i].ev \in {"PERIPHERAL_DISCONNECTED",
                        "PERIPHERAL_CONNECTION_LOST_ERROR"}

(* C40: a disconnect signal that concerns a serial device other than the   *)
(* one the session is connected to leaves the session as it is: it stays   *)
(* Connected and emits neither PERIPHERAL_DISCONNECTED nor                 *)
(* PERIPHERAL_CONNECTION_LOST_ERROR.                                       *)
C40_Original ==
    [][ ForeignDisconnect => (sess' = sess /\ ~LossReported) ]_vars

=============================================================================
